---- MODULE Spec2Model ----
(***************************************************************************)
(* Model of the mixed-container loop unroller of numba/untyped_passes.py   *)
(* (MixedContainerUnroller) over a block-based function IR.                *)
(*                                                                         *)
(* A variable is a pair <<name, n>>: n = 0 for a name of the source        *)
(* function, n > 0 for a name made by mk_unique_var (name.n).  A statement *)
(* is a record with one shape for every kind; a block is a sequence of     *)
(* statements; func_ir.blocks is a function from labels to blocks.         *)
(* ir.Del statements, source locations and scopes are not modelled.        *)
(***************************************************************************)
EXTENDS Integers, Sequences, FiniteSets, TLC

VARIABLES
    blocks,      \* func_ir.blocks : label -> block
    livemap,     \* func_ir.variable_lifetime.livemap, as of the last PostProcessor.run()
    typemap,     \* state.typemap : variable name -> container type
    typing,      \* <<state.return_type, state.calltypes>>
    uniq,        \* counter behind mk_unique_var
    ir_max_label, \* ir_utils._max_label, the offset compile_to_numba_ir adds
    pc,          \* position in run_pass: "entry", "loop", "reset", "done", "raised"
    mutated,     \* local variable mutated of run_pass
    err,         \* the exception that escaped run_pass, "" if none
    entry,       \* func_ir.blocks, typemap and typing at entry to run_pass
    last         \* what the last apply_transform call did

vars == <<blocks, livemap, typemap, typing, uniq, ir_max_label, pc, mutated, err,
          entry, last>>

\* ------------------------------------------------------------------------
\* IR nodes (numba/ir.py)
\* ------------------------------------------------------------------------
\* a block dictionary without blocks
NoBlocks == [l \in {} |-> <<>>]

NoVar == <<"", 0>>
VoidTy == [name |-> "void", lit |-> FALSE, val |-> 0]
Ty(nm) == [name |-> nm, lit |-> FALSE, val |-> 0]
LitTy(v) == [name |-> "Literal[int]", lit |-> TRUE, val |-> v]

NoStmt ==
    [k |-> "none", tgt |-> NoVar, op |-> "", x |-> NoVar, y |-> NoVar,
     g |-> "", n |-> 0, s |-> {}, ty |-> VoidTy, tb |-> 0, fb |-> 0]

\* ir.Assign(value, target): op names the kind of value
Assign(t, o, a, b) == [NoStmt EXCEPT !.k = "assign", !.tgt = t, !.op = o, !.x = a, !.y = b]
Global(t, nm) == [NoStmt EXCEPT !.k = "assign", !.tgt = t, !.op = "global", !.g = nm]
Const(t, v) == [NoStmt EXCEPT !.k = "assign", !.tgt = t, !.op = "const", !.n = v]
ConstTuple(t, ix) == [NoStmt EXCEPT !.k = "assign", !.tgt = t, !.op = "const", !.s = ix]
Arg(t, nm) == [NoStmt EXCEPT !.k = "assign", !.tgt = t, !.op = "arg", !.g = nm]
Copy(t, a) == Assign(t, "var", a, NoVar)
Call(t, f, a) == Assign(t, "call", f, a)
Getitem(t, c, i) == Assign(t, "getitem", c, i)
TypedGetitem(t, c, i, dt) == [Assign(t, "typed_getitem", c, i) EXCEPT !.ty = dt]
Jump(l) == [NoStmt EXCEPT !.k = "jump", !.tb = l]
Branch(c, t, f) == [NoStmt EXCEPT !.k = "branch", !.x = c, !.tb = t, !.fb = f]
Return(a) == [NoStmt EXCEPT !.k = "return", !.x = a]
Raise == [NoStmt EXCEPT !.k = "raise"]

\* an ir.Expr (an ir.Inst), as opposed to ir.Var, ir.Const, ir.Global, ir.Arg
IsExpr(st) == st.k = "assign" /\ st.op \notin {"var", "const", "global", "arg"}

Terminator(b) == IF Len(b) = 0 THEN NoStmt ELSE b[Len(b)]

\* Jump.get_targets / Branch.get_targets
Targets(st) ==
    IF st.k = "jump" THEN {st.tb}
    ELSE IF st.k = "branch" THEN {st.tb, st.fb}
    ELSE {}

Max(S) == CHOOSE m \in S : \A z \in S : z <= m
Min(S) == CHOOSE m \in S : \A z \in S : m <= z

\* the elements of a set of integers in ascending order
RECURSIVE Sorted(_)
Sorted(S) == IF S = {} THEN <<>> ELSE <<Min(S)>> \o Sorted(S \ {Min(S)})

Range(f) == {f[i] : i \in DOMAIN f}

\* ------------------------------------------------------------------------
\* Control flow graph and natural loops (numba/controlflow.py)
\* ------------------------------------------------------------------------
AllTargets(blks) == UNION {Targets(Terminator(blks[l])) : l \in DOMAIN blks}

\* CFGraph.add_edge asserts that both ends are nodes
WellFormed(blks) == AllTargets(blks) \subseteq DOMAIN blks

RECURSIVE ReachFrom(_, _, _, _)
ReachFrom(blks, frontier, seen, avoid) ==
    IF frontier = {} THEN seen
    ELSE LET nxt == ((UNION {Targets(Terminator(blks[l])) : l \in frontier})
                        \cap DOMAIN blks) \ (seen \cup avoid)
         IN ReachFrom(blks, nxt, seen \cup nxt, avoid)

EntryPoint(blks) == Min(DOMAIN blks)

\* nodes reachable from the entry point (the others are dead nodes)
LiveNodes(blks) == ReachFrom(blks, {EntryPoint(blks)}, {EntryPoint(blks)}, {})

Succs(blks, l) == Targets(Terminator(blks[l])) \cap DOMAIN blks

Preds(blks, live, l) == {p \in live : l \in Succs(blks, p)}

\* d dominates n: n is live and every path from the entry point to n holds d
Dominates(blks, live, d, n) ==
    /\ n \in live
    /\ \/ d = n
       \/ d = EntryPoint(blks)
       \/ n \notin ReachFrom(blks, {EntryPoint(blks)}, {EntryPoint(blks)}, {d})

BackEdges(blks, live) ==
    {e \in live \X live : e[2] \in Succs(blks, e[1]) /\ Dominates(blks, live, e[2], e[1])}

RECURSIVE ReachBack(_, _, _, _, _)
ReachBack(blks, live, frontier, seen, stop) ==
    IF frontier = {} THEN seen
    ELSE LET nxt == (UNION {Preds(blks, live, l) : l \in frontier}) \ (seen \cup {stop})
         IN ReachBack(blks, live, nxt, seen \cup nxt, stop)

\* CFGraph.loops(): one Loop(entries, exits, header, body) per header
Loops(blks) ==
    LET live == LiveNodes(blks)
        be == BackEdges(blks, live)
        LoopOf(h) ==
            LET tails == {e[1] : e \in {d \in be : d[2] = h}} \ {h}
                body == {h} \cup ReachBack(blks, live, tails, tails, h)
            IN [header |-> h,
                body |-> body,
                entries |-> (UNION {Preds(blks, live, m) : m \in body}) \ body,
                exits |-> (UNION {Succs(blks, m) : m \in body}) \ body]
    IN {LoopOf(h) : h \in {e[2] : e \in be}}

\* ------------------------------------------------------------------------
\* Definitions, use/def and liveness (numba/ir.py, numba/analysis.py)
\* ------------------------------------------------------------------------
RECURSIVE Concat(_)
Concat(ss) == IF Len(ss) = 0 THEN <<>> ELSE Head(ss) \o Concat(Tail(ss))

\* every statement of the function, blocks in ascending label order
AllStmts(blks) ==
    LET ls == Sorted(DOMAIN blks)
    IN Concat([i \in 1..Len(ls) |-> blks[ls[i]]])

IsAssignTo(st, v) == st.k = "assign" /\ st.tgt = v

\* build_definitions: func_ir._definitions, here the sequence of all the
\* statements, from which the definitions of a name are selected
build_definitions(blks) == AllStmts(blks)

\* func_ir._definitions[name]: the assignments to name
DefsOf(defs, v) == SelectSeq(defs, LAMBDA st : IsAssignTo(st, v))

KeyError == [NoStmt EXCEPT !.k = "KeyError"]

\* FunctionIR.get_definition: the single definition of a variable, followed
\* through variable-to-variable assignments; KeyError if there is none or
\* more than one
RECURSIVE GetDef(_, _, _)
GetDef(defs, v, fuel) ==
    LET ds == DefsOf(defs, v)
    IN IF Len(ds) # 1 \/ fuel = 0 THEN KeyError
       ELSE IF ds[1].op = "var" THEN GetDef(defs, ds[1].x, fuel - 1)
       ELSE ds[1]

get_definition(defs, v) == GetDef(defs, v, Len(defs))

\* Block.find_exprs(op)
find_exprs(b, o) == SelectSeq(b, LAMBDA st : st.k = "assign" /\ st.op = o)

RhsVars(st) ==
    IF st.k = "assign" /\ st.op \notin {"const", "global", "arg"}
    THEN {st.x, st.y} \ {NoVar} ELSE {}

\* Stmt.list_vars()
ListVars(st) ==
    IF st.k = "assign" THEN {st.tgt} \cup RhsVars(st)
    ELSE IF st.k \in {"branch", "return"} THEN {st.x}
    ELSE {}

\* compute_use_defs for one block: <<usemap, defmap>>
RECURSIVE UseDefsOf(_, _, _)
UseDefsOf(b, use, def) ==
    IF Len(b) = 0 THEN <<use, def>>
    ELSE LET st == Head(b)
             def2 == IF st.k = "assign" /\ st.tgt \notin RhsVars(st)
                     THEN def \cup {st.tgt} ELSE def
             use2 == use \cup (ListVars(st) \ def2)
         IN UseDefsOf(Tail(b), use2, def2)

usemap(blks) == [l \in DOMAIN blks |-> UseDefsOf(blks[l], {}, {})[1]]
defmap(blks) == [l \in DOMAIN blks |-> UseDefsOf(blks[l], {}, {})[2]]

\* compute_live_map, def_reach: definitions reachable at each block
RECURSIVE DefReachFix(_, _, _, _)
DefReachFix(blks, live, ud, dr) ==
    LET nxt == [l \in DOMAIN blks |->
                  dr[l] \cup ud[l] \cup UNION {dr[p] : p \in Preds(blks, live, l)}]
    IN IF nxt = dr THEN dr ELSE DefReachFix(blks, live, ud, nxt)

\* compute_live_map, liveness: variable usage pushed backward
RECURSIVE LivenessFix(_, _, _, _, _)
LivenessFix(blks, live, dr, dm, lm) ==
    LET nxt == [l \in DOMAIN blks |->
                  lm[l] \cup
                  IF l \in live
                  THEN UNION {(lm[q] \cap dr[l]) \ dm[l] : q \in Succs(blks, l) \cap live}
                  ELSE {}]
    IN IF nxt = lm THEN lm ELSE LivenessFix(blks, live, dr, dm, nxt)

\* VariableLifetime(blocks).livemap
compute_live_map(blks) ==
    LET live == LiveNodes(blks)
        um == usemap(blks)
        dm == defmap(blks)
        ud == [l \in DOMAIN blks |-> um[l] \cup dm[l]]
        dr == DefReachFix(blks, live, ud, [l \in DOMAIN blks |-> {}])
    IN LivenessFix(blks, live, dr, dm, um)

\* get_name_var_table: the variables that occur in a set of blocks
get_name_var_table(blks) ==
    UNION {UNION {ListVars(blks[l][i]) : i \in 1..Len(blks[l])} : l \in DOMAIN blks}

\* replace_var_names: rename every occurrence by the dictionary d
RenameVar(d, v) == IF v \in DOMAIN d THEN d[v] ELSE v

RenameStmt(d, st) ==
    [st EXCEPT !.tgt = RenameVar(d, st.tgt), !.x = RenameVar(d, st.x),
               !.y = RenameVar(d, st.y)]

replace_var_names(blks, d) ==
    [l \in DOMAIN blks |-> [i \in 1..Len(blks[l]) |-> RenameStmt(d, blks[l][i])]]

\* mk_unique_var(name) with the counter at c: name.c
mk_unique_var(v, c) == <<v[1], c>>

\* ------------------------------------------------------------------------
\* simplify_CFG (numba/ir_utils.py)
\* ------------------------------------------------------------------------
ReplaceLast(b, st) == [b EXCEPT ![Len(b)] = st]

\* a block that is a single Branch is inlined into the predecessors that
\* end in a Jump, and deleted when all of them do
InlineSingleBranch(blks) ==
    LET live == LiveNodes(blks)
        single == {l \in live : Len(blks[l]) = 1 /\ blks[l][1].k = "branch"}
        del == {l \in single : \A p \in Preds(blks, live, l) : Terminator(blks[p]).k = "jump"}
        Patch(l) ==
            LET t == Terminator(blks[l])
            IN IF t.k = "jump" /\ t.tb \in single
               THEN ReplaceLast(blks[l], blks[t.tb][1]) ELSE blks[l]
    IN [l \in (DOMAIN blks) \ del |-> Patch(l)]

\* merge_adjacent_blocks: a block whose only successor has it as only
\* predecessor absorbs that successor
RECURSIVE merge_adjacent_blocks(_)
merge_adjacent_blocks(blks) ==
    LET live == LiveNodes(blks)
        pairs == {e \in live \X live :
                    /\ Succs(blks, e[1]) = {e[2]}
                    /\ Preds(blks, live, e[2]) = {e[1]}
                    /\ e[1] # e[2]}
    IN IF pairs = {} THEN blks
       ELSE LET e == CHOOSE q \in pairs : \A r \in pairs : q[1] <= r[1]
                merged == SubSeq(blks[e[1]], 1, Len(blks[e[1]]) - 1) \o blks[e[2]]
            IN merge_adjacent_blocks(
                 [l \in (DOMAIN blks) \ {e[2]} |-> IF l = e[1] THEN merged ELSE blks[l]])

\* find_topo_order: reversed DFS post-order, the false branch visited first,
\* back edges not followed; st = <<seen, post_order>>
RECURSIVE TopoDfs(_, _, _, _)
TopoDfs(blks, be, node, st) ==
    IF node \in st[1] THEN st
    ELSE LET t == Terminator(blks[node])
             succs == IF t.k = "branch" THEN <<t.fb, t.tb>>
                      ELSE IF t.k = "jump" THEN <<t.tb>> ELSE <<>>
             s0 == <<st[1] \cup {node}, st[2]>>
             Go(d, s) == IF <<node, d>> \in be THEN s ELSE TopoDfs(blks, be, d, s)
             s1 == IF Len(succs) >= 1 THEN Go(succs[1], s0) ELSE s0
             s2 == IF Len(succs) >= 2 THEN Go(succs[2], s1) ELSE s1
         IN <<s2[1], Append(s2[2], node)>>

Reverse(sq) == [i \in 1..Len(sq) |-> sq[Len(sq) + 1 - i]]

find_topo_order(blks) ==
    LET live == LiveNodes(blks)
    IN Reverse(TopoDfs(blks, BackEdges(blks, live), EntryPoint(blks), <<{}, <<>>>>)[2])

\* rename_labels: a block that ends in Return is moved to the end of the order
ReturnLast(blks, topo) ==
    LET rets == {l \in DOMAIN blks : Terminator(blks[l]).k = "return"}
    IN IF rets = {} THEN topo
       ELSE SelectSeq(topo, LAMBDA l : l # Max(rets)) \o << Max(rets) >>

\* rename_labels: the i-th label of the order gets the i-th smallest label
LabelMap(order) ==
    LET all == Sorted(Range(order))
    IN [l \in Range(order) |-> all[CHOOSE i \in 1..Len(order) : order[i] = l]]

\* rename_labels: the blocks and their jump targets under the new labels
Relabel(blks, label_map) ==
    LET Fix(b) ==
            LET t == Terminator(b)
            IN IF t.k = "jump" THEN ReplaceLast(b, [t EXCEPT !.tb = label_map[t.tb]])
               ELSE IF t.k = "branch"
               THEN ReplaceLast(b, [t EXCEPT !.tb = label_map[t.tb], !.fb = label_map[t.fb]])
               ELSE b
        inv == [n \in Range(label_map) |-> CHOOSE l \in DOMAIN label_map : label_map[l] = n]
    IN [n \in Range(label_map) |-> Fix(blks[inv[n]])]

\* rename_labels: the labels are handed out again in topological order, a
\* block that ends in Return last
rename_labels(blks) == Relabel(blks, LabelMap(ReturnLast(blks, find_topo_order(blks))))

\* simplify_CFG succeeds when every target is a block and no block is dead
\* (rename_labels looks every block up in the map of the live ones)
simplify_ok(blks) == WellFormed(blks) /\ LiveNodes(blks) = DOMAIN blks

simplify_CFG(blks) == rename_labels(merge_adjacent_blocks(InlineSingleBranch(blks)))

\* ------------------------------------------------------------------------
\* MixedContainerUnroller (numba/untyped_passes.py)
\* ------------------------------------------------------------------------

\* _accepted_types = (types.Tuple, types.UniTuple)
accepted_types == {"Tuple", "UniTuple"}

\* analyse_tuple: type -> list of indexes, the keys in order of first
\* occurrence (a sequence of [ty, ix])
RECURSIVE AnalyseFrom(_, _, _)
AnalyseFrom(tup, i, d) ==
    IF i > Len(tup) THEN d
    ELSE LET hit == {j \in 1..Len(d) : d[j].ty = tup[i]}
         IN IF hit = {}
            THEN AnalyseFrom(tup, i + 1, Append(d, [ty |-> tup[i], ix |-> <<i - 1>>]))
            ELSE AnalyseFrom(tup, i + 1,
                    [d EXCEPT ![CHOOSE j \in hit : TRUE].ix = Append(@, i - 1)])

\* analyse_tuple, were the enumeration to start after the first slot
analyse_tuple_from_second(tup) == AnalyseFrom(tup, 2, <<>>)

analyse_tuple(tup) == AnalyseFrom(tup, 1, <<>>)

\* add_offset_to_labels_w_ignore
add_offset_to_labels_w_ignore(blks, offset, ignore) ==
    LET Shift(t) == IF t \in ignore THEN t ELSE t + offset
        Fix(b) ==
            LET term == Terminator(b)
            IN IF term.k = "jump" THEN ReplaceLast(b, [term EXCEPT !.tb = Shift(term.tb)])
               ELSE IF term.k = "branch"
               THEN ReplaceLast(b, [term EXCEPT !.tb = Shift(term.tb), !.fb = Shift(term.fb)])
               ELSE b
    IN [n \in {l + offset : l \in DOMAIN blks} |-> Fix(blks[n - offset])]

\* Layout of the function that gen_switch compiles: the k-th test (k from 0)
\* `PLACEHOLDER_INDEX in (...)`, the k-th `SENTINEL = None`, the else branch
\* and the common exit, as bytecode offsets
TestBytes == 8
SentinelBytes == 6
TestLabel(k) == (TestBytes + SentinelBytes) * k
SentinelLabel(k) == TestLabel(k) + TestBytes
ElseLabel(K) == TestLabel(K)
ExitLabel(K) == ElseLabel(K) + TestBytes

IsSentinel(st) == st.k = "assign" /\ st.tgt[1] = "SENTINEL"

\* gen_switch: the switch table for the switch data, PLACEHOLDER_INDEX
\* replaced by index (the value that defines the index variable).
\* compile_to_numba_ir shifts the labels by _max_label + 1 and renames
\* every variable with mk_unique_var.  Result: [blocks, u, ml]
gen_switch(data, index, ml, u) ==
    LET K == Len(data)
        off == ml + 1
        sentinel == mk_unique_var(<<"SENTINEL", 0>>, u + 1)
        IdxV(k) == mk_unique_var(<<"$idx", 0>>, u + 4 * k + 2)
        TupV(k) == mk_unique_var(<<"$const", 0>>, u + 4 * k + 3)
        CmpV(k) == mk_unique_var(<<"$cmp", 0>>, u + 4 * k + 4)
        NoneV(k) == mk_unique_var(<<"$none", 0>>, u + 4 * k + 5)
        Test(k) ==
            << [index EXCEPT !.tgt = IdxV(k)],
               ConstTuple(TupV(k), Range(data[k + 1].ix)),
               Assign(CmpV(k), "in", IdxV(k), TupV(k)),
               Branch(CmpV(k), off + SentinelLabel(k), off + TestLabel(k + 1)) >>
        Sent(k) ==
            << Const(NoneV(k), 0), Copy(sentinel, NoneV(k)), Jump(off + ExitLabel(K)) >>
        labels == {off + TestLabel(k) : k \in 0..K} \cup
                  {off + SentinelLabel(k) : k \in 0..K}
        Blk(l) ==
            IF l = off + ExitLabel(K) THEN << Const(NoneV(K), 0), Return(NoneV(K)) >>
            ELSE IF l = off + ElseLabel(K) THEN << Raise >>
            ELSE IF (l - off) % (TestBytes + SentinelBytes) = 0
                 THEN Test((l - off) \div (TestBytes + SentinelBytes))
                 ELSE Sent((l - off) \div (TestBytes + SentinelBytes))
    IN [blocks |-> [l \in labels |-> Blk(l)],
        u |-> u + 4 * K + 5,
        ml |-> off + ExitLabel(K)]

\* a deterministic enumeration of a finite set
RECURSIVE SetToSeq(_)
SetToSeq(S) ==
    IF S = {} THEN <<>>
    ELSE LET e == CHOOSE z \in S : TRUE IN <<e>> \o SetToSeq(S \ {e})

\* a fix of the typed_getitems that leaves those of a branch type that is
\* no Literal as they are
RECURSIVE FixTypedGetitems_literal_only(_, _, _)
FixTypedGetitems_literal_only(b, branch_ty, st) ==
    IF Len(b) = 0 THEN st
    ELSE LET stmt == Head(b)
             cv == mk_unique_var(<<"branch_const", 0>>, st.u + 1)
         IN IF stmt.k = "assign" /\ stmt.op = "typed_getitem" /\ branch_ty.lit
            THEN FixTypedGetitems_literal_only(Tail(b), branch_ty,
                   [body |-> st.body \o << Const(cv, branch_ty.val), Copy(stmt.tgt, cv) >>,
                    consts |-> st.consts \cup {cv},
                    u |-> st.u + 1])
            ELSE FixTypedGetitems_literal_only(Tail(b), branch_ty,
                                               [st EXCEPT !.body = Append(@, stmt)])

\* inject_loop_body, "fix the typed_getitem locations" for one block: every
\* typed_getitem becomes a constant (branch type is a Literal) or a
\* typed_getitem of the branch type.  st = [body, consts, u]
RECURSIVE FixTypedGetitems(_, _, _)
FixTypedGetitems(b, branch_ty, st) ==
    IF Len(b) = 0 THEN st
    ELSE LET stmt == Head(b)
             cv == mk_unique_var(<<"branch_const", 0>>, st.u + 1)
         IN IF stmt.k = "assign" /\ stmt.op = "typed_getitem"
            THEN IF branch_ty.lit
                 THEN FixTypedGetitems(Tail(b), branch_ty,
                        [body |-> st.body \o << Const(cv, branch_ty.val), Copy(stmt.tgt, cv) >>,
                         consts |-> st.consts \cup {cv},
                         u |-> st.u + 1])
                 ELSE FixTypedGetitems(Tail(b), branch_ty,
                        [st EXCEPT !.body = Append(@, TypedGetitem(stmt.tgt, stmt.x, stmt.y, branch_ty))])
            ELSE FixTypedGetitems(Tail(b), branch_ty, [st EXCEPT !.body = Append(@, stmt)])

\* the same over the blocks of one copy, in label order.  acc = [blks, consts, u]
RECURSIVE FixBlocks(_, _, _, _)
FixBlocks(blks, ls, branch_ty, acc) ==
    IF Len(ls) = 0 THEN acc
    ELSE LET r == FixTypedGetitems(blks[Head(ls)], branch_ty,
                                   [body |-> <<>>, consts |-> acc.consts, u |-> acc.u])
         IN FixBlocks(blks, Tail(ls), branch_ty,
                      [blks |-> [acc.blks EXCEPT ![Head(ls)] = r.body],
                       consts |-> r.consts, u |-> r.u])

\* inject_loop_body, "rename", were the names of dont_replace not dropped
\* from the table
new_var_dict_keep_none(loop_blocks, dont_replace, u) ==
    LET var_table == get_name_var_table(loop_blocks)
        names == SetToSeq(var_table)
    IN [v \in var_table |->
          mk_unique_var(v, u + (CHOOSE i \in 1..Len(names) : names[i] = v))]

\* inject_loop_body, "rename": the dictionary name -> mk_unique_var(name)
\* for every variable of the copy that is not in dont_replace
new_var_dict(loop_blocks, dont_replace, u) ==
    LET var_table == get_name_var_table(loop_blocks) \ dont_replace
        names == SetToSeq(var_table)
    IN [v \in var_table |->
          mk_unique_var(v, u + (CHOOSE i \in 1..Len(names) : names[i] = v))]

\* inject_loop_body, the non-local jumps of the loop body: "ignore_set"
ignore_set_of(loop_blocks) ==
    (UNION {UNION {Targets(loop_blocks[l][i]) : i \in 1..Len(loop_blocks[l])}
              : l \in DOMAIN loop_blocks}) \ DOMAIN loop_blocks

\* inject_loop_body, lines 634-647: the renamed copy is put in the switch,
\* its first block at the sentinel block lbl.  acc = [sw, dont_replace, u, copies]
InjectCopy(acc, lbl, branch_ty, loop_start_lbl, fixed, dict) ==
    LET loop_blocks == replace_var_names(fixed.blks, dict)
        rest == (DOMAIN fixed.blks) \ {loop_start_lbl}
    IN [sw |-> [l \in (DOMAIN acc.sw) \cup rest |->
                  IF l = lbl THEN loop_blocks[loop_start_lbl]
                  ELSE IF l \in rest THEN loop_blocks[l]
                  ELSE acc.sw[l]],
        dont_replace |-> acc.dont_replace \cup fixed.consts,
        u |-> fixed.u + Cardinality(DOMAIN dict),
        copies |-> Append(acc.copies,
                     [ty |-> branch_ty, at |-> lbl, start |-> loop_start_lbl,
                      labels |-> {lbl} \cup rest, dict |-> dict, consts |-> fixed.consts,
                      blks |-> loop_blocks])]

\* inject_loop_body, lines 619-632: the typed_getitems of the shifted copy
\* are fixed and the dictionary of new names made
InjectShifted(acc, lbl, branch_ty, shifted, fixed) ==
    InjectCopy(acc, lbl, branch_ty, Min(DOMAIN shifted), fixed,
               new_var_dict(fixed.blks, acc.dont_replace \cup fixed.consts, fixed.u))

\* a round of inject_loop_body that shifts every copy by the same offset
InjectOne_same_offset(acc, lbl, branch_ty, loop_blocks0, ignore_set) ==
    LET shifted == add_offset_to_labels_w_ignore(loop_blocks0, Max(DOMAIN loop_blocks0) + 1, ignore_set)
    IN InjectShifted(acc, lbl, branch_ty, shifted,
                     FixBlocks(shifted, Sorted(DOMAIN shifted), branch_ty,
                               [blks |-> shifted, consts |-> {}, u |-> acc.u]))

\* inject_loop_body, one round of "replace the sentinel_blocks with the
\* loop body".  acc = [sw, dont_replace, u, copies]
InjectOne(acc, lbl, branch_ty, loop_blocks0, ignore_set) ==
    LET shifted == add_offset_to_labels_w_ignore(loop_blocks0, Max(DOMAIN acc.sw) + 1, ignore_set)
    IN InjectShifted(acc, lbl, branch_ty, shifted,
                     FixBlocks(shifted, Sorted(DOMAIN shifted), branch_ty,
                               [blks |-> shifted, consts |-> {}, u |-> acc.u]))

RECURSIVE InjectAll(_, _, _, _, _, _)
InjectAll(acc, sentinel_blocks, switch_data, i, loop_blocks0, ignore_set) ==
    IF i > Len(sentinel_blocks) \/ i > Len(switch_data) THEN acc
    ELSE InjectAll(InjectOne(acc, sentinel_blocks[i], switch_data[i].ty, loop_blocks0, ignore_set),
                   sentinel_blocks, switch_data, i + 1, loop_blocks0, ignore_set)

\* inject_loop_body, lines 649-651: the labels of the filled switch are
\* shifted above those of the caller
InjectResult(ok, acc, caller_max_label, ignore_set) ==
    [ok |-> ok,
     blocks |-> add_offset_to_labels_w_ignore(acc.sw, caller_max_label + 1, ignore_set),
     u |-> acc.u,
     copies |-> acc.copies,
     ignore_set |-> ignore_set,
     offset |-> caller_max_label + 1]

\* the sentinel blocks of the switch, in label order
sentinel_blocks_of(switch_blocks) ==
    SelectSeq(Sorted(DOMAIN switch_blocks),
              LAMBDA l : \E i \in 1..Len(switch_blocks[l]) : IsSentinel(switch_blocks[l][i]))

\* inject_loop_body, lines 528-546, with the sentinel blocks found
InjectInto(switch_blocks, sentinel_blocks, loop_blocks0, caller_max_label, dont_replace, switch_data, u, ignore_set) ==
    LET sentinel_exits == {Terminator(switch_blocks[sentinel_blocks[i]]).tb
                             : i \in 1..Len(sentinel_blocks)}
    IN InjectResult(Cardinality(sentinel_exits) = 1 /\ Len(sentinel_blocks) = Len(switch_data),
                    InjectAll([sw |-> [l \in (DOMAIN switch_blocks) \ sentinel_exits
                                         |-> switch_blocks[l]],
                               dont_replace |-> dont_replace, u |-> u, copies |-> <<>>],
                              sentinel_blocks, switch_data, 1, loop_blocks0, ignore_set),
                    caller_max_label, ignore_set)

\* inject_loop_body.  Result: [ok, blocks, u, copies, ignore_set, offset]
inject_loop_body(switch_blocks, loop_blocks0, caller_max_label, dont_replace, switch_data, u) ==
    InjectInto(switch_blocks, sentinel_blocks_of(switch_blocks), loop_blocks0, caller_max_label,
               dont_replace, switch_data, u, ignore_set_of(loop_blocks0))

\* the test both apply_transform and unroll_loop make on a statement of the
\* loop body: a getitem on the container, spelled a[i] or ref(a)[i].
\* "yes", "no", or "KeyError" when get_definition raises
Conforms(defs, tm, arg, stmt) ==
    IF ~(stmt.k = "assign" /\ stmt.op = "getitem") THEN "no"
    ELSE IF stmt.x # arg /\ get_definition(defs, stmt.x).k = "KeyError" THEN "KeyError"
    ELSE IF stmt.x # arg /\ ~(get_definition(defs, stmt.x).op = "call"
                              /\ get_definition(defs, stmt.x).y = arg) THEN "no"
    ELSE IF tm[arg].kind \notin accepted_types THEN "no"
    ELSE "yes"

\* the outcome of the search of one block: the position of the first
\* conforming getitem, 0 if there is none, -1 if get_definition raises first
RECURSIVE FirstConforming(_, _, _, _, _)
FirstConforming(defs, tm, arg, b, i) ==
    IF i > Len(b) THEN 0
    ELSE LET c == Conforms(defs, tm, arg, b[i])
         IN IF c = "yes" THEN i
            ELSE IF c = "KeyError" THEN -1
            ELSE FirstConforming(defs, tm, arg, b, i + 1)

\* apply_transform, lines 711-802: what the scan does with one loop.
\* kind: "abort" (return False), "skip" (continue), "raise", "eligible";
\* found: the blocks of the body in which the search for a getitem can end,
\* one for each block the iteration over the set loop.body can meet first
ScanLoop(blks, defs, tm, loop) ==
    LET Res(kd, e, a, f) == [kind |-> kd, err |-> e, arg |-> a, found |-> f, loop |-> loop]
        iternexts == find_exprs(blks[loop.header], "iternext")
        phi == get_definition(defs, iternexts[1].x)
        range_call == get_definition(defs, phi.x)
        range_global == get_definition(defs, range_call.x)
        len_call == get_definition(defs, range_call.y)
        len_global == get_definition(defs, len_call.x)
        literal_unroll_call == get_definition(defs, len_call.y)
        call_func == get_definition(defs, literal_unroll_call.x)
        arg == literal_unroll_call.y
        first == [l \in loop.body |-> FirstConforming(defs, tm, arg, blks[l], 1)]
        found == {l \in loop.body : first[l] > 0}
    IN IF Len(iternexts) # 1 THEN Res("abort", "", NoVar, {})
       ELSE IF phi.k = "KeyError" THEN Res("skip", "", NoVar, {})
       ELSE IF ~IsExpr(phi) THEN Res("raise", "AttributeError", NoVar, {})
       ELSE IF range_call.k = "KeyError" THEN Res("raise", "KeyError", NoVar, {})
       ELSE IF ~IsExpr(range_call) \/ range_call.op # "call" THEN Res("skip", "", NoVar, {})
       ELSE IF range_global.k = "KeyError" THEN Res("raise", "KeyError", NoVar, {})
       ELSE IF range_global.op # "global" \/ range_global.g # "range" THEN Res("skip", "", NoVar, {})
       ELSE IF len_call.k = "KeyError" THEN Res("raise", "KeyError", NoVar, {})
       ELSE IF ~IsExpr(len_call) \/ len_call.op # "call" THEN Res("skip", "", NoVar, {})
       ELSE IF len_global.k = "KeyError" THEN Res("raise", "KeyError", NoVar, {})
       ELSE IF len_global.op # "global" \/ len_global.g # "len" THEN Res("skip", "", NoVar, {})
       ELSE IF literal_unroll_call.k = "KeyError" THEN Res("raise", "KeyError", NoVar, {})
       ELSE IF literal_unroll_call.op # "call" THEN Res("skip", "", NoVar, {})
       ELSE IF call_func.k = "KeyError" THEN Res("raise", "KeyError", NoVar, {})
       ELSE IF call_func.op # "global" \/ call_func.g # "literal_unroll" THEN Res("skip", "", NoVar, {})
       ELSE IF arg \notin DOMAIN tm THEN Res("raise", "KeyError", arg, {})
       ELSE IF tm[arg].kind \notin accepted_types THEN Res("raise", "AssertionError", arg, {})
       ELSE IF found = {} /\ \A l \in loop.body : first[l] = 0 THEN Res("skip", "", arg, {})
       ELSE IF found = {} THEN Res("raise", "KeyError", arg, {})
       ELSE Res("eligible", IF \E l \in loop.body : first[l] = -1 THEN "KeyError" ELSE "",
                arg, found)

\* unroll_loop, step 1, were only the spelling a[i] accepted
tuple_getitems_direct_only(blks, defs, tm, loop, arg) ==
    UNION {{<<l, i>> : i \in {j \in 1..Len(blks[l]) :
                                Conforms(defs, tm, arg, blks[l][j]) = "yes" /\ blks[l][j].x = arg}}
             : l \in loop.body}

\* unroll_loop, step 1: the positions <<label, i>> of the getitems of the
\* loop body that conform
tuple_getitems(blks, defs, tm, loop, arg) ==
    UNION {{<<l, i>> : i \in {j \in 1..Len(blks[l]) : Conforms(defs, tm, arg, blks[l][j]) = "yes"}}
             : l \in loop.body}

\* unroll_loop, step 4: the conforming getitems swapped for typed_getitem
\* placeholders of type void
swap_getitems(blks, items) ==
    [l \in DOMAIN blks |->
       [i \in 1..Len(blks[l]) |->
          IF <<l, i>> \in items
          THEN TypedGetitem(blks[l][i].tgt, blks[l][i].x, blks[l][i].y, VoidTy)
          ELSE blks[l][i]]]

\* unroll_loop, lines 908-913: the variables that are not renamed
dont_replace_of(blks, lm, header) ==
    usemap(blks)[header] \cup defmap(blks)[header] \cup lm[header]

\* a patch that stitches the switch onto the false target of the header
patch_in_falsebr(blks, unroll_blocks, body, header, replace) ==
    LET unroll_lbl == Sorted(DOMAIN unroll_blocks)
        delete == body \ {replace}
        rest == (DOMAIN unroll_blocks) \ {unroll_lbl[1]}
        dom == ((DOMAIN blks) \ delete) \cup rest
        hb == blks[header]
    IN [l \in dom |-> IF l \in rest THEN unroll_blocks[l]
          ELSE IF l = replace THEN unroll_blocks[unroll_lbl[1]]
          ELSE IF l = header THEN ReplaceLast(hb, [Terminator(hb) EXCEPT !.fb = replace])
          ELSE blks[l]]

\* unroll_loop, step 6: the unrolled body patched in at the label replace,
\* the other blocks of the body deleted, the header's true branch stitched
patch_in(blks, unroll_blocks, body, header, replace) ==
    LET unroll_lbl == Sorted(DOMAIN unroll_blocks)
        delete == body \ {replace}
        rest == (DOMAIN unroll_blocks) \ {unroll_lbl[1]}
        dom == ((DOMAIN blks) \ delete) \cup rest
        hb == blks[header]
    IN [l \in dom |->
          IF l \in rest THEN unroll_blocks[l]
          ELSE IF l = replace THEN unroll_blocks[unroll_lbl[1]]
          ELSE IF l = header THEN ReplaceLast(hb, [Terminator(hb) EXCEPT !.tb = replace])
          ELSE blks[l]]

\* what unroll_loop leaves when it raises e with the blocks b
UnrollFail(e, b, blks, u, ml) ==
    [err |-> e, blocks |-> b, u |-> u, ml |-> ml, switch_data |-> <<>>,
     keep |-> {}, V |-> {}, copies |-> <<>>, ignore_set |-> {},
     swapped |-> blks, offset |-> 0, switch |-> NoBlocks]

\* unroll_loop, lines 915-932: the unrolled body is patched in
UnrollResult(blks, blks1, loop, replace, u, ml, switch_data, keep, loop_blocks, branches, unrolled_body) ==
    IF ~unrolled_body.ok THEN UnrollFail("AssertionError", blks1, blks, u, ml)
    ELSE [err |-> "",
          blocks |-> patch_in(blks1, unrolled_body.blocks, loop.body \ {loop.header},
                              loop.header, replace),
          u |-> unrolled_body.u,
          ml |-> branches.ml,
          switch_data |-> switch_data,
          keep |-> keep,
          V |-> get_name_var_table(loop_blocks),
          copies |-> unrolled_body.copies,
          ignore_set |-> unrolled_body.ignore_set,
          swapped |-> blks1,
          offset |-> unrolled_body.offset,
          switch |-> branches.blocks]

\* unroll_loop, lines 897-913: the loop body is copied into the switch,
\* blks1 being the blocks with the getitems swapped
UnrollSwapped(blks, lm, loop, replace, u, ml, switch_data, branches, blks1) ==
    LET this_loop_body == loop.body \ {loop.header}
        loop_blocks == [l \in this_loop_body |-> blks1[l]]
        keep == dont_replace_of(blks1, lm, loop.header)
    IN IF loop.header \notin DOMAIN lm THEN UnrollFail("KeyError", blks1, blks, u, ml)
       ELSE IF this_loop_body = {} THEN UnrollFail("ValueError", blks1, blks, u, ml)
       ELSE UnrollResult(blks, blks1, loop, replace, u, ml, switch_data, keep, loop_blocks,
                         branches,
                         inject_loop_body(branches.blocks, loop_blocks, Max(DOMAIN blks1),
                                          keep, switch_data, branches.u))

\* unroll_loop, lines 875-895: the switch is generated on the index of the
\* first getitem and the getitems swapped
UnrollItems(blks, defs, lm, tm, loop, arg, u, ml, first, replace, items, switch_data) ==
    LET item0 == blks[first][Min({p[2] : p \in {q \in items : q[1] = first}})]
    IN IF items = {} THEN UnrollFail("CompilerError", blks, blks, u, ml)
       ELSE IF Len(DefsOf(defs, item0.y)) = 0 THEN UnrollFail("IndexError", blks, blks, u, ml)
       ELSE IF Len(switch_data) = 0 THEN UnrollFail("IndexError", blks, blks, u, ml)
       ELSE UnrollSwapped(blks, lm, loop, replace, u, ml, switch_data,
                          gen_switch(switch_data, DefsOf(defs, item0.y)[1], ml, u),
                          swap_getitems(blks, items))

\* unroll_loop.  first is the block in which the iteration over the set
\* loop.body meets its first conforming getitem (tuple_getitem[0]) and
\* replace the first label of tuple(this_loop_body).
\* Result: err ("" when the loop was unrolled) and, then, the new blocks,
\* the counters and a description of what was built
unroll_loop(blks, defs, lm, tm, loop, arg, u, ml, first, replace) ==
    IF arg \notin DOMAIN tm THEN UnrollFail("KeyError", blks, blks, u, ml)
    ELSE IF tm[arg].kind \notin accepted_types THEN UnrollFail("AssertionError", blks, blks, u, ml)
    ELSE IF \E l \in loop.body : \E i \in 1..Len(blks[l]) :
                Conforms(defs, tm, arg, blks[l][i]) = "KeyError"
    THEN UnrollFail("KeyError", blks, blks, u, ml)
    ELSE UnrollItems(blks, defs, lm, tm, loop, arg, u, ml, first, replace,
                     tuple_getitems(blks, defs, tm, loop, arg),
                     analyse_tuple(tm[arg].elems))

\* ------------------------------------------------------------------------
\* The functions handed to the pass: IR as the bytecode translation and
\* IterLoopCanonicalization leave it, labels being bytecode offsets
\* ------------------------------------------------------------------------
MaxTupleLen == 2

ElemTypes == {Ty("int64"), Ty("float64"), LitTy(1)}

\* a typed container: a UniTuple when all the slots have one type
Container(elems) ==
    [kind |-> IF \A i \in DOMAIN elems : elems[i] = elems[1] THEN "UniTuple" ELSE "Tuple",
     elems |-> elems]

Containers ==
    {Container(e) : e \in UNION {[1..n -> ElemTypes] : n \in 1..MaxTupleLen}}

FirstContainers ==
    {Container(<<Ty("int64"), Ty("float64")>>), Container(<<Ty("int64")>>),
     Container(<<LitTy(1), Ty("int64")>>)}

SecondContainers ==
    {Container(<<Ty("float64"), Ty("int64")>>), Container(<<LitTy(1)>>)}

N(nm) == <<nm, 0>>
T(nm, j) == <<nm \o "." \o ToString(j), 0>>

\* `literal_unroll(a)` wrapped in range(len(.)) and getiter, for loop j
Setup(j, a) ==
    << Global(T("$lu_gbl", j), "literal_unroll"),
       Call(T("$lu", j), T("$lu_gbl", j), a),
       Copy(T("$a", j), T("$lu", j)),
       Global(T("$len_gbl", j), "len"),
       Call(T("$len", j), T("$len_gbl", j), T("$a", j)),
       Global(T("$range_gbl", j), "range"),
       Call(T("$range", j), T("$range_gbl", j), T("$len", j)),
       Copy(T("$call_get_range", j), T("$range", j)),
       Assign(T("$phi", j), "getiter", T("$call_get_range", j), NoVar) >>

\* the header of for loop j
Header(j, body, exit) ==
    << Assign(T("$iter", j), "iternext", T("$phi", j), NoVar),
       Assign(T("$first", j), "pair_first", T("$iter", j), NoVar),
       Assign(T("$second", j), "pair_second", T("$iter", j), NoVar),
       Copy(T("$i", j), T("$first", j)),
       Branch(T("$second", j), body, exit) >>

\* the element read in the body of loop j: x = $lu[$i] after
\* canonicalisation ("iter"), i = $i; x = a[i] when the source spells the
\* range loop itself ("range")
Item(form, j, a, x) ==
    IF form = "iter" THEN << Getitem(x, T("$lu", j), T("$i", j)) >>
    ELSE << Copy(T("i", j), T("$i", j)), Getitem(x, a, T("i", j)) >>

Add(x, y) == Assign(x, "inplace_binop", x, y)

Args == << Arg(N("a"), "a"), Arg(N("b"), "b"), Arg(N("n"), "n"), Const(N("acc"), 0) >>

\* for x in literal_unroll(a): acc += x
\* return acc
Simple(form, simp) ==
    IF simp
    THEN (0 :> Args \o Setup(1, N("a")) \o << Jump(14) >>) @@
         (14 :> Header(1, 16, 28)) @@
         (16 :> Item(form, 1, N("a"), N("x")) \o << Add(N("acc"), N("x")), Jump(14) >>) @@
         (28 :> << Return(N("acc")) >>)
    ELSE (0 :> Args \o << Jump(4) >>) @@
         (4 :> Setup(1, N("a")) \o << Jump(14) >>) @@
         (14 :> Header(1, 16, 28)) @@
         (16 :> Item(form, 1, N("a"), N("x")) \o << Add(N("acc"), N("x")), Jump(14) >>) @@
         (28 :> << Jump(30) >>) @@
         (30 :> << Return(N("acc")) >>)

\* for x in literal_unroll(a):
\*     t = x + acc
\*     if t: break
\* else:
\*     return acc
\* return t
BreakElse(form, simp) ==
    (0 :> Args \o Setup(1, N("a")) \o << Jump(14) >>) @@
    (14 :> Header(1, 16, 30)) @@
    (16 :> Item(form, 1, N("a"), N("x")) \o
           << Assign(N("t"), "binop", N("x"), N("acc")), Branch(N("t"), 26, 14) >>) @@
    (30 :> << Return(N("acc")) >>) @@
    (IF simp THEN (26 :> << Return(N("t")) >>)
     ELSE (26 :> << Jump(34) >>) @@ (34 :> << Return(N("t")) >>))

\* for x in literal_unroll(a):
\*     acc += x
\*     if acc < n: acc -= n
\*     else: break
\* return acc
BreakBody(form) ==
    (0 :> Args \o Setup(1, N("a")) \o << Jump(14) >>) @@
    (14 :> Header(1, 16, 42)) @@
    (16 :> Item(form, 1, N("a"), N("x")) \o
           << Add(N("acc"), N("x")), Assign(N("$c"), "binop", N("acc"), N("n")),
              Branch(N("$c"), 30, 40) >>) @@
    (30 :> << Assign(N("acc"), "inplace_binop", N("acc"), N("n")), Jump(14) >>) @@
    (40 :> << Jump(44) >>) @@
    (42 :> << Jump(44) >>) @@
    (44 :> << Return(N("acc")) >>)

\* for x in literal_unroll(a): acc += x
\* for y in literal_unroll(b): acc += y
\* return acc
Siblings(form) ==
    (0 :> Args \o Setup(1, N("a")) \o << Jump(14) >>) @@
    (14 :> Header(1, 16, 28)) @@
    (16 :> Item(form, 1, N("a"), N("x")) \o << Add(N("acc"), N("x")), Jump(14) >>) @@
    (28 :> Setup(2, N("b")) \o << Jump(42) >>) @@
    (42 :> Header(2, 44, 56)) @@
    (44 :> Item(form, 2, N("b"), N("y")) \o << Add(N("acc"), N("y")), Jump(42) >>) @@
    (56 :> << Return(N("acc")) >>)

\* for x in literal_unroll(a):
\*     for y in literal_unroll(c):       c is b, or a again
\*         acc += y
\*     acc += x
\* return acc
Nested(form, c, simp) ==
    (0 :> Args \o Setup(1, N("a")) \o << Jump(14) >>) @@
    (14 :> Header(1, 16, 60)) @@
    (16 :> Item(form, 1, N("a"), N("x")) \o Setup(2, c) \o << Jump(30) >>) @@
    (30 :> Header(2, 32, 44)) @@
    (32 :> Item(form, 2, c, N("y")) \o << Add(N("acc"), N("y")), Jump(30) >>) @@
    (44 :> << Add(N("acc"), N("x")), Jump(14) >>) @@
    (IF simp THEN (60 :> << Return(N("acc")) >>)
     ELSE (60 :> << Jump(62) >>) @@ (62 :> << Return(N("acc")) >>))

\* for i in range(len(literal_unroll(a))):
\*     for j in range(len(literal_unroll(b))):
\*         acc += a[i]
\*         acc += b[j]
\* return acc
NestedShared ==
    (0 :> Args \o Setup(1, N("a")) \o << Jump(14) >>) @@
    (14 :> Header(1, 16, 60)) @@
    (16 :> << Copy(T("i", 1), T("$i", 1)) >> \o Setup(2, N("b")) \o << Jump(30) >>) @@
    (30 :> Header(2, 32, 44)) @@
    (32 :> << Copy(T("i", 2), T("$i", 2)),
              Getitem(N("x"), N("a"), T("i", 1)), Add(N("acc"), N("x")),
              Getitem(N("y"), N("b"), T("i", 2)), Add(N("acc"), N("y")), Jump(30) >>) @@
    (44 :> << Jump(14) >>) @@
    (60 :> << Return(N("acc")) >>)

\* for i in range(len(literal_unroll(a))):
\*     for j in range(len(literal_unroll(b))):
\*         acc += a[i]
\*         acc += b[j]
\*     for k in range(len(literal_unroll(b))):
\*         acc += a[i]
\*         acc += b[k]
\* return acc
NestedTwice ==
    (0 :> Args \o Setup(1, N("a")) \o << Jump(14) >>) @@
    (14 :> Header(1, 16, 90)) @@
    (16 :> << Copy(T("i", 1), T("$i", 1)) >> \o Setup(2, N("b")) \o << Jump(30) >>) @@
    (30 :> Header(2, 32, 44)) @@
    (32 :> << Copy(T("i", 2), T("$i", 2)),
              Getitem(N("x"), N("a"), T("i", 1)), Add(N("acc"), N("x")),
              Getitem(N("y"), N("b"), T("i", 2)), Add(N("acc"), N("y")), Jump(30) >>) @@
    (44 :> Setup(3, N("b")) \o << Jump(58) >>) @@
    (58 :> Header(3, 60, 72)) @@
    (60 :> << Copy(T("i", 3), T("$i", 3)),
              Getitem(N("x"), N("a"), T("i", 1)), Add(N("acc"), N("x")),
              Getitem(N("z"), N("b"), T("i", 3)), Add(N("acc"), N("z")), Jump(58) >>) @@
    (72 :> << Jump(14) >>) @@
    (90 :> << Return(N("acc")) >>)

\* for x in literal_unroll(a): acc += x
\* while acc < n: acc += n
\* return acc
WithWhile(form, simp) ==
    (IF simp THEN (0 :> Args \o Setup(1, N("a")) \o << Jump(14) >>)
     ELSE (0 :> Args \o << Jump(4) >>) @@ (4 :> Setup(1, N("a")) \o << Jump(14) >>)) @@
    (14 :> Header(1, 16, 28)) @@
    (16 :> Item(form, 1, N("a"), N("x")) \o << Add(N("acc"), N("x")), Jump(14) >>) @@
    (28 :> << Jump(30) >>) @@
    (30 :> << Assign(N("$c"), "binop", N("acc"), N("n")), Branch(N("$c"), 38, 48) >>) @@
    (38 :> << Add(N("acc"), N("n")), Jump(30) >>) @@
    (48 :> << Return(N("acc")) >>)

\* for k in range(n): acc += k
\* for x in literal_unroll(a): acc += x
\* return acc
WithRange(form) ==
    (0 :> Args \o << Global(N("$range_gbl"), "range"), Call(N("$range"), N("$range_gbl"), N("n")),
                     Assign(T("$phi", 0), "getiter", N("$range"), NoVar), Jump(10) >>) @@
    (10 :> Header(0, 12, 24)) @@
    (12 :> << Copy(N("k"), T("$i", 0)), Add(N("acc"), N("k")), Jump(10) >>) @@
    (24 :> Setup(1, N("a")) \o << Jump(38) >>) @@
    (38 :> Header(1, 40, 52)) @@
    (40 :> Item(form, 1, N("a"), N("x")) \o << Add(N("acc"), N("x")), Jump(38) >>) @@
    (52 :> << Return(N("acc")) >>)

Forms == {"iter", "range"}

Prog(f, b) == [form |-> f, ir |-> b]

\* the function run on every container
EveryContainer == {Prog(f, Simple(f, TRUE)) : f \in Forms}

\* the other functions with one marked container
OneContainer ==
    {Prog("range", Simple("range", FALSE))} \cup
    {Prog(f, BreakElse(f, TRUE)) : f \in Forms} \cup
    {Prog("range", BreakElse("range", FALSE))} \cup
    {Prog(f, BreakBody(f)) : f \in Forms} \cup
    {Prog(f, WithWhile(f, TRUE)) : f \in Forms} \cup
    {Prog("range", WithWhile("range", FALSE))} \cup
    {Prog(f, WithRange(f)) : f \in Forms} \cup
    {Prog(f, Nested(f, N("a"), TRUE)) : f \in Forms}

\* the functions with two marked containers
TwoContainers ==
    {Prog(f, Siblings(f)) : f \in Forms} \cup
    {Prog(f, Nested(f, N("b"), TRUE)) : f \in Forms} \cup
    {Prog("range", Nested("range", N("b"), FALSE))} \cup
    {Prog("range", NestedShared)}

\* the function with two loops nested in a third one
ThreeLoops == {Prog("range", NestedTwice)}

\* ir_utils._max_label as earlier compilations left it: 0 in a fresh process
InitMaxLabels == {0, 31}

\* ir_utils._max_label at entry: canonicalising a loop of this function
\* (form "iter") inlined get_range at a label above all those of the function
EntryMaxLabels(p) ==
    IF p.form = "iter" THEN {Max(DOMAIN p.ir) + 1} ELSE InitMaxLabels

\* bound on the number of apply_transform calls of one run_pass
MaxCalls == 8

ListTy == [kind |-> "List", elems |-> << Ty("int64") >>]

\* the partial typemap: the container typed as a tuple, typed as a list
\* (which the pass does not accept), or not typed at all
TypeMapsOver(cs) ==
    {(N("a") :> c) : c \in cs \cup {ListTy}} \cup {(N("n") :> ListTy)}

TypeMaps0 == TypeMapsOver(Containers)

TypeMaps1 == TypeMapsOver(FirstContainers)

TypeMaps2 ==
    {(N("a") :> c) @@ (N("b") :> d) : c \in FirstContainers, d \in SecondContainers}

TypeMaps3 ==
    {(N("a") :> Container(<<Ty("int64")>>)) @@ (N("b") :> Container(<<Ty("float64")>>))}

TypeMapsOf(p) ==
    IF p \in EveryContainer THEN TypeMaps0
    ELSE IF p \in OneContainer THEN TypeMaps1
    ELSE IF p \in TwoContainers THEN TypeMaps2 ELSE TypeMaps3

\* ------------------------------------------------------------------------
\* run_pass as a state machine
\* ------------------------------------------------------------------------

NoLast ==
    [op |-> "none", header |-> 0, body |-> {}, exits |-> {}, arg |-> NoVar,
     switch_data |-> <<>>, keep |-> {}, V |-> {}, copies |-> <<>>, ignore_set |-> {},
     pre |-> NoBlocks, swapped |-> NoBlocks, post |-> NoBlocks, replace |-> 0, offset |-> 0,
     tuple |-> <<>>, switch |-> NoBlocks,
     loops |-> {}, examined |-> {}, eligible |-> {}, records |-> {}, calls |-> 0]

Init ==
    /\ \E p \in EveryContainer \cup OneContainer \cup TwoContainers \cup ThreeLoops :
         /\ blocks = p.ir
         /\ typemap \in TypeMapsOf(p)
         /\ ir_max_label \in EntryMaxLabels(p)
    /\ livemap = compute_live_map(blocks)
    /\ typing = << "partial", "partial" >>
    /\ uniq = 0
    /\ pc = "entry"
    /\ mutated = FALSE
    /\ err = ""
    /\ entry = [blocks |-> blocks, typemap |-> typemap, typing |-> typing]
    /\ last = NoLast

\* run_pass, lines 936-939: the CFG is squashed first
RunPassEntry ==
    /\ pc = "entry"
    /\ IF simplify_ok(blocks)
       THEN /\ blocks' = simplify_CFG(blocks)
            /\ pc' = "loop"
            /\ err' = ""
       ELSE /\ blocks' = blocks
            /\ pc' = "raised"
            /\ err' = IF WellFormed(blocks) THEN "KeyError" ELSE "AssertionError"
    /\ mutated' = FALSE
    /\ UNCHANGED <<livemap, typemap, typing, uniq, ir_max_label, entry, last>>

\* the functions that map every x of DOMAIN cs to one element of cs[x]
RECURSIVE PickAll(_)
PickAll(cs) ==
    IF DOMAIN cs = {} THEN {[z \in {} |-> 0]}
    ELSE LET x == CHOOSE z \in DOMAIN cs : TRUE
             rest == PickAll([y \in (DOMAIN cs) \ {x} |-> cs[y]])
         IN {f @@ (x :> v) : f \in rest, v \in cs[x]}

\* apply_transform raises e
Raises(e, b, l) ==
    /\ pc' = "raised"
    /\ err' = e
    /\ blocks' = b
    /\ last' = l
    /\ UNCHANGED <<livemap, typemap, typing, uniq, ir_max_label, mutated, entry>>

\* apply_transform returns False, were run_pass to call it again
ReturnsFalseAndRepeats(l) ==
    /\ pc' = "loop"
    /\ last' = l
    /\ UNCHANGED <<blocks, livemap, typemap, typing, uniq, ir_max_label, mutated, err, entry>>

\* apply_transform returns False: run_pass leaves its loop
ReturnsFalse(l) ==
    /\ pc' = "reset"
    /\ last' = l
    /\ UNCHANGED <<blocks, livemap, typemap, typing, uniq, ir_max_label, mutated, err, entry>>

\* apply_transform, lines 807-816: the header of one recorded loop lies in
\* the body of another
nesting(records) ==
    \E t \in DOMAIN records : \E r \in DOMAIN records :
        t # r /\ records[t].loop.header \in records[r].loop.body

\* apply_transform, lines 818-829: the popped loop info is unrolled and the
\* CFG squashed; r is what unroll_loop made of it
Unroll(found, info, replace, r) ==
    LET did == [found EXCEPT !.op = "unroll",
                  !.header = info.loop.header,
                  !.body = info.loop.body \ {info.loop.header},
                  !.exits = info.loop.exits,
                  !.arg = info.arg,
                  !.switch_data = r.switch_data,
                  !.keep = r.keep, !.V = r.V,
                  !.copies = r.copies,
                  !.ignore_set = r.ignore_set,
                  !.swapped = r.swapped,
                  !.post = r.blocks,
                  !.replace = replace,
                  !.tuple = typemap[info.arg].elems,
                  !.switch = r.switch,
                  !.offset = r.offset]
    IN IF r.err # ""
       THEN Raises(r.err, r.blocks, [found EXCEPT !.op = "raise"])
       ELSE IF ~simplify_ok(r.blocks)
       THEN Raises(IF WellFormed(r.blocks) THEN "KeyError" ELSE "AssertionError", r.blocks, did)
       ELSE /\ blocks' = simplify_CFG(r.blocks)
            /\ livemap' = compute_live_map(blocks')
            /\ uniq' = r.u
            /\ ir_max_label' = r.ml
            /\ mutated' = TRUE
            /\ last' = did
            /\ UNCHANGED <<typemap, typing, pc, err, entry>>

\* apply_transform, lines 807-829: the nesting check, then one loop info is
\* popped and unrolled
Transform(defs, found, literal_unroll_info) ==
    IF nesting(literal_unroll_info)
    THEN Raises("UnsupportedError: Nesting of literal_unroll is unsupported",
                blocks, [found EXCEPT !.op = "nesting"])
    ELSE \E key \in DOMAIN literal_unroll_info :
           \E replace \in (IF literal_unroll_info[key].loop.body
                                = {literal_unroll_info[key].loop.header}
                           THEN {literal_unroll_info[key].loop.header}
                           ELSE literal_unroll_info[key].loop.body
                                  \ {literal_unroll_info[key].loop.header}) :
              Unroll(found, literal_unroll_info[key], replace,
                     unroll_loop(blocks, defs, livemap, typemap, literal_unroll_info[key].loop,
                                 literal_unroll_info[key].arg, uniq, ir_max_label, key, replace))

\* apply_transform, lines 711-805, with every loop scanned
Scanned(defs, loops, scans) ==
    LET aborting == {sc \in scans : sc.kind = "abort"}
        raising == {sc \in scans : sc.kind = "raise" \/ sc.err # ""}
        eligible == {sc \in scans : sc.kind = "eligible"}
        seen == [last EXCEPT !.op = "scan", !.loops = {lp.header : lp \in loops},
                             !.eligible = {sc.loop.header : sc \in eligible},
                             !.calls = @ + 1, !.pre = blocks]
    IN \/ \E sc \in aborting : \E before \in SUBSET (scans \ (aborting \cup raising)) :
            ReturnsFalse([seen EXCEPT !.op = "abort",
                            !.examined = {q.loop.header : q \in before \cup {sc}}])
       \/ \E sc \in raising : Raises(sc.err, blocks, [seen EXCEPT !.op = "raise"])
       \/ /\ aborting = {}
          /\ \A sc \in scans : sc.kind # "raise"
          /\ eligible = {}
          /\ ReturnsFalse([seen EXCEPT !.op = "none", !.examined = seen.loops])
       \/ /\ aborting = {}
          /\ \A sc \in scans : sc.kind # "raise"
          /\ eligible # {}
          /\ \E lbl \in PickAll([sc \in eligible |-> sc.found]) :
               \E literal_unroll_info \in
                      PickAll([key \in {lbl[sc] : sc \in eligible} |->
                                 {sc \in eligible : lbl[sc] = key}]) :
                  Transform(defs,
                            [seen EXCEPT !.examined = seen.loops,
                               !.records = {literal_unroll_info[key].loop.header
                                              : key \in DOMAIN literal_unroll_info}],
                            literal_unroll_info)

\* apply_transform, lines 701-710: the loops of the CFG are scanned
Scan(defs, loops) ==
    Scanned(defs, loops, {ScanLoop(blocks, defs, typemap, lp) : lp \in loops})

\* One call of apply_transform from the loop of run_pass (lines 1013-1017).
\* The iteration orders of the dict loops and of the sets loop.body are not
\* fixed by the code; every order is covered:
\*  - a loop that makes the scan return or raise can come first;
\*  - literal_unroll_info is keyed by the label lbl at which the search of
\*    the body stopped, so of the loops recorded under one key any can be
\*    the one scanned last, which is the one that stays;
\*  - popitem() yields the key inserted last, which can be any key.
ApplyTransform ==
    /\ pc = "loop"
    /\ last.calls < MaxCalls
    /\ Scan(build_definitions(blocks), Loops(blocks))

\* run_pass, lines 1019-1023, were state.return_type and state.calltypes
\* left as they are
ResetKeepsTyping ==
    /\ pc = "reset"
    /\ typemap' = NoBlocks
    /\ typing' = typing
    /\ pc' = "done"
    /\ UNCHANGED <<blocks, livemap, uniq, ir_max_label, mutated, err, entry, last>>

\* run_pass, lines 1019-1023, were state.typemap left as it is
ResetKeepsTypemap ==
    /\ pc = "reset"
    /\ typemap' = typemap
    /\ typing' = << "None", "None" >>
    /\ pc' = "done"
    /\ UNCHANGED <<blocks, livemap, uniq, ir_max_label, mutated, err, entry, last>>

\* run_pass, lines 1019-1023: the partial typing is reset and mutated returned
Reset ==
    /\ pc = "reset"
    /\ typemap' = NoBlocks
    /\ typing' = << "None", "None" >>
    /\ pc' = "done"
    /\ UNCHANGED <<blocks, livemap, uniq, ir_max_label, mutated, err, entry, last>>

Next == RunPassEntry \/ ApplyTransform \/ Reset

Spec == Init /\ [][Next]_vars

\* the states in which run_pass has a step to take (MaxCalls caps the
\* number of calls of apply_transform)
NextEnabled ==
    pc \in {"entry", "reset"} \/ (pc = "loop" /\ last.calls < MaxCalls)

\* run_pass is one sequential call: a step that can be taken is taken.
\* This is WF_vars(Next) with ENABLED <<Next>>_vars written out as
\* NextEnabled: each action is total on the states of its pc
FairSpec == Spec /\ ([]<>(~NextEnabled) \/ []<><<Next>>_vars)

\* ------------------------------------------------------------------------
\* What the properties below are stated in
\* ------------------------------------------------------------------------

\* apply_transform, lines 812-815: the error raised for nested loops
NestingError == "UnsupportedError: Nesting of literal_unroll is unsupported"

Terminated == pc \in {"done", "raised"}

\* the loops of blks that meet the eligibility conditions of apply_transform
\* (lines 715-802): canonical header over range(len(literal_unroll(c))),
\* c a Tuple or UniTuple, a getitem on c in the body
EligibleLoops(blks, tm) ==
    LET defs == build_definitions(blks)
    IN {sc.loop : sc \in {z \in {ScanLoop(blks, defs, tm, lp) : lp \in Loops(blks)}
                             : z.kind = "eligible"}}

NestedEligible(blks, tm) ==
    \E p \in EligibleLoops(blks, tm) : \E q \in EligibleLoops(blks, tm) :
        p # q /\ p.header \in q.body

Unrolled == last.op = "unroll"

\* the loop body handed to inject_loop_body by the last unroll_loop
OrigBody == [l \in last.body |-> last.swapped[l]]

\* the block of copy c made from block l of the loop body, as renamed by
\* inject_loop_body; the constant assignments put in for a Literal type
\* are left out, so that statement i is the copy of statement i
CopyOf(c, l) ==
    SelectSeq(c.blks[l + (c.start - Min(last.body))],
              LAMBDA st : ~(st.k = "assign" /\ st.tgt \in c.consts))

\* the pairs <<name in the loop body, name at the same place in copy c>>
Pairs(c) ==
    UNION {UNION {LET o == OrigBody[l][i]
                      n == CopyOf(c, l)[i]
                  IN {pr \in {<<o.tgt, n.tgt>>} \cup
                             (IF o.op = "typed_getitem" /\ c.ty.lit THEN {}
                              ELSE {<<o.x, n.x>>, <<o.y, n.y>>}) : pr[1] # NoVar}
                  : i \in 1..Len(OrigBody[l])}
             : l \in last.body}

\* V of the last unroll: the variables of the loop body
BodyVars == get_name_var_table(OrigBody)

\* D of the last unroll: used or defined at the header, or live there
HeaderVars ==
    usemap(last.pre)[last.header] \cup defmap(last.pre)[last.header] \cup
    compute_live_map(last.pre)[last.header]

\* the variables of the blocks that are not copied
OutsideVars ==
    get_name_var_table([l \in (DOMAIN last.swapped) \ last.body |-> last.swapped[l]])

\* the label at which patch_in leaves the copy of block l made for copy c
PlacedAt(c, l) ==
    LET m == l + (c.start - Min(last.body))
    IN (IF m = c.start THEN c.at ELSE m) + last.offset

\* the label a jump to t of the loop body must have in copy c
ExpectedTarget(c, t) == IF t \in last.body THEN PlacedAt(c, t) ELSE t

\* a block of the switch: `idx in (...)` then a branch
IsTest(b) == Terminator(b).k = "branch" /\ \E i \in 1..Len(b) : b[i].op = "in"

TestSet(b) ==
    LET t == CHOOSE i \in 1..Len(b) : b[i].op = "in"
        c == CHOOSE i \in 1..Len(b) : b[i].tgt = b[t].y
    IN b[c].s

\* where the tests of the switch held in blks send index i from label l on;
\* tests is the set of labels of the test blocks
RECURSIVE Dispatch(_, _, _, _, _)
Dispatch(blks, tests, l, i, fuel) ==
    IF fuel = 0 \/ l \notin tests \/ l \notin DOMAIN blks THEN l
    ELSE IF ~IsTest(blks[l]) THEN l
    ELSE Dispatch(blks, tests,
                  IF i \in TestSet(blks[l]) THEN Terminator(blks[l]).tb
                  ELSE Terminator(blks[l]).fb, i, fuel - 1)

\* the labels of the test blocks after patch_in
PatchedTests ==
    {last.replace} \cup {l + last.offset : l \in {z \in DOMAIN last.switch : IsTest(last.switch[z])}}

\* the copies specialised to type ty
CopiesFor(ty) == {k \in DOMAIN last.copies : last.copies[k].ty = ty}

\* ------------------------------------------------------------------------
\* Properties
\* ------------------------------------------------------------------------

\* C1: when the function handed to run_pass holds two distinct eligible
\* loops, the header of one in the body of the other, run_pass unrolls
\* nothing and does not return: it can only end by raising the
\* UnsupportedError "Nesting of literal_unroll is unsupported".
C1_NestingRejected ==
    NestedEligible(entry.blocks, entry.typemap) =>
        /\ ~mutated
        /\ pc \notin {"reset", "done"}
        /\ pc = "raised" => err = NestingError

\* C2: when run_pass has raised the nesting error, the blocks of the
\* function are those it had at entry to run_pass.
C2_NoMutationOnNesting ==
    (pc = "raised" /\ err = NestingError) => blocks = entry.blocks

\* C3: after unroll_loop the header is as it was but for its true branch,
\* the blocks outside the loop are as they were, the tests reached from
\* the header send every index i of the container to the copy of the
\* first body block made for the type of slot i, and every jump of a copy
\* goes where the jump it is a copy of went: to the copy of the same body
\* block, or to the same block outside the body (the header included).
C3_UnrollPreserves ==
    Unrolled =>
        LET h == last.header
            e0 == Terminator(last.swapped[h]).tb
        IN /\ h \in DOMAIN last.post
           /\ last.post[h] = ReplaceLast(last.swapped[h],
                                [Terminator(last.swapped[h]) EXCEPT
                                    !.tb = Terminator(last.post[h]).tb])
           /\ \A l \in (DOMAIN last.swapped) \ (last.body \cup {h}) :
                 l \in DOMAIN last.post /\ last.post[l] = last.swapped[l]
           /\ \A i \in 1..Len(last.tuple) :
                 \E k \in CopiesFor(last.tuple[i]) :
                    Dispatch(last.post, PatchedTests, Terminator(last.post[h]).tb,
                             i - 1, Cardinality(PatchedTests) + 1)
                       = PlacedAt(last.copies[k], e0)
           /\ \A k \in DOMAIN last.copies : \A l \in last.body :
                 LET c == last.copies[k]
                     o == Terminator(OrigBody[l])
                 IN /\ PlacedAt(c, l) \in DOMAIN last.post
                    /\ LET n == Terminator(last.post[PlacedAt(c, l)])
                       IN /\ n.k = o.k
                          /\ [i \in 1..Len(CopyOf(c, l)) |-> CopyOf(c, l)[i].op]
                               = [i \in 1..Len(OrigBody[l]) |->
                                    IF OrigBody[l][i].op = "typed_getitem" /\ c.ty.lit
                                    THEN "var" ELSE OrigBody[l][i].op]
                          /\ o.k \in {"jump", "branch"} => n.tb = ExpectedTarget(c, o.tb)
                          /\ o.k = "branch" => n.fb = ExpectedTarget(c, o.fb)

\* C4: the switch data of analyse_tuple and the switch of gen_switch
\* partition the indices of the container by slot type: every index
\* 0..N-1 is in the list of exactly one key, the key is the type of that
\* slot, there is one SENTINEL block per key, and the tests send index i
\* to the SENTINEL block of the key of slot i and an index outside 0..N-1
\* to the raise.
C4_SwitchPartition ==
    Unrolled =>
        LET data == last.switch_data
            sw == last.switch
            tests == {l \in DOMAIN sw : IsTest(sw[l])}
            sentinels == SelectSeq(Sorted(DOMAIN sw),
                           LAMBDA l : \E i \in 1..Len(sw[l]) : IsSentinel(sw[l][i]))
            Land(i) == Dispatch(sw, tests, Min(DOMAIN sw), i, Cardinality(tests) + 1)
        IN /\ \A i \in 1..Len(last.tuple) :
                 /\ Cardinality({j \in DOMAIN data : (i - 1) \in Range(data[j].ix)}) = 1
                 /\ \A j \in DOMAIN data :
                       (i - 1) \in Range(data[j].ix) <=> data[j].ty = last.tuple[i]
           /\ \A j \in DOMAIN data :
                 /\ Range(data[j].ix) \subseteq 0..(Len(last.tuple) - 1)
                 /\ Cardinality(Range(data[j].ix)) = Len(data[j].ix)
           /\ Len(data) = Cardinality(Range(last.tuple))
           /\ Len(sentinels) = Len(data)
           /\ \A i \in 1..Len(last.tuple) : \A j \in DOMAIN data :
                 data[j].ty = last.tuple[i] => Land(i - 1) = sentinels[j]
           /\ Terminator(sw[Land(Len(last.tuple))]).k = "raise"

\* C4 happens: a container of two slots of different types was unrolled
C4_Witness ==
    Unrolled /\ Len(last.tuple) = 2 /\ Len(last.switch_data) = 2

\* C5: in every copy of the loop body every variable of D (used or
\* defined at the header, or live there) keeps its name; every variable of
\* V - D gets one new name, the same at each of its occurrences, that is
\* no name of the loop body; the new names of a copy are as many as the
\* variables of V - D and no two copies share one.
C5_RenamingDisjoint ==
    Unrolled =>
        LET D == HeaderVars
            V == BodyVars
            P == [k \in DOMAIN last.copies |-> Pairs(last.copies[k])]
            R == [k \in DOMAIN last.copies |-> {pr[2] : pr \in {z \in P[k] : z[1] \notin D}}]
        IN /\ \A k \in DOMAIN last.copies :
                 /\ \A pr \in P[k] : pr[1] \in D => pr[2] = pr[1]
                 /\ \A pr \in P[k] : pr[1] \notin D => pr[2] \notin V \cup D
                 /\ \A pr \in P[k] : \A qr \in P[k] : (pr[1] = qr[1]) <=> (pr[2] = qr[2])
                 /\ Cardinality(R[k]) = Cardinality(V \ D)
           /\ \A k \in DOMAIN last.copies : \A j \in DOMAIN last.copies :
                 k # j => R[k] \cap R[j] = {}

\* C5 happens: two copies were made of a body with variables of its own
C5_Witness ==
    Unrolled /\ Len(last.copies) = 2 /\ BodyVars \ HeaderVars # {}
             /\ BodyVars \cap HeaderVars # {}

\* C6: a variable of the loop body that a block outside the copied body
\* also defines or uses has its original name in every copy.
C6_BoundaryVarsKept ==
    Unrolled =>
        \A k \in DOMAIN last.copies : \A pr \in Pairs(last.copies[k]) :
            pr[1] \in OutsideVars => pr[2] = pr[1]

\* C7: run_pass terminates: it returns or it raises.
C7_Terminates == <>Terminated

\* C7 happens: run_pass returned after several calls of apply_transform
C7_Witness == pc = "done" /\ mutated /\ last.calls >= 3

\* C8: when run_pass has returned, no loop of the function is eligible.
C8_Fixpoint ==
    pc = "done" => EligibleLoops(blocks, entry.typemap) = {}

\* C9: a scan of apply_transform that raises nothing examines every loop
\* of the function, whatever loops do not match the pattern.
C9_ScanContinues ==
    last.op \in {"abort", "none", "nesting", "unroll"} => last.examined = last.loops

\* C10: run_pass returns True exactly when the blocks of the function
\* differ from those it had at entry.
C10_ReturnValue ==
    pc = "done" => (mutated <=> blocks # entry.blocks)

\* the errors the pass raises by name: UnsupportedError (line 816) and
\* CompilerError (line 873)
TypedErrors == {NestingError, "CompilerError"}

\* C14: an exception that escapes run_pass is an UnsupportedError or a
\* CompilerError; a loop over range(len(literal_unroll(c))) whose c is not
\* in the typemap or is not a Tuple or UniTuple ends in one of them or is
\* skipped.
C14_TypedErrors ==
    pc = "raised" => err \in TypedErrors

\* ------------------------------------------------------------------------
\* unroll_loop called on its own, for a loop info the caller chose
\* ------------------------------------------------------------------------

\* what the body of the loop reads: the container a ("direct"), the
\* literal_unroll(a) it was wrapped in ("ref"), another container
\* ("other"), nothing ("none"), or t, which is bound before the loop and
\* again in it ("rebound")
ProbeRead(kind) ==
    IF kind = "direct" THEN << Getitem(N("x"), N("a"), T("i", 1)) >>
    ELSE IF kind = "ref" THEN << Getitem(N("x"), T("$lu", 1), T("i", 1)) >>
    ELSE IF kind = "other" THEN << Getitem(N("x"), N("b"), T("i", 1)) >>
    ELSE IF kind = "none" THEN << Copy(N("x"), T("i", 1)) >>
    ELSE << Copy(N("t"), N("n")), Getitem(N("x"), N("t"), T("i", 1)) >>

ProbeKinds == {"direct", "ref", "other", "none", "rebound"}

\* t = b
\* for i in range(len(literal_unroll(a))):
\*     x = <read>; acc += x
\* return acc
Probe(kind) ==
    (0 :> Args \o << Copy(N("t"), N("b")) >> \o Setup(1, N("a")) \o << Jump(14) >>) @@
    (14 :> Header(1, 16, 28)) @@
    (16 :> << Copy(T("i", 1), T("$i", 1)) >> \o ProbeRead(kind)
           \o << Add(N("acc"), N("x")), Jump(14) >>) @@
    (28 :> << Return(N("acc")) >>)

DirectInit ==
    /\ blocks \in {Probe(k) : k \in ProbeKinds}
    /\ typemap \in TypeMaps0
    /\ ir_max_label \in InitMaxLabels
    /\ livemap = compute_live_map(blocks)
    /\ typing = << "partial", "partial" >>
    /\ uniq = 0
    /\ pc = "direct"
    /\ mutated = FALSE
    /\ err = ""
    /\ entry = [blocks |-> blocks, typemap |-> typemap, typing |-> typing]
    /\ last = NoLast

\* unroll_loop has returned or raised; r is what it left
Returned(loop, arg, r) ==
    /\ blocks' = r.blocks
    /\ err' = r.err
    /\ pc' = IF r.err = "" THEN "returned" ELSE "raised"
    /\ uniq' = r.u
    /\ ir_max_label' = r.ml
    /\ last' = [NoLast EXCEPT !.op = "direct", !.header = loop.header,
                  !.body = loop.body \ {loop.header}, !.arg = arg,
                  !.pre = blocks, !.swapped = r.swapped, !.post = r.blocks]
    /\ UNCHANGED <<livemap, typemap, typing, mutated, entry>>

\* unroll_loop(state, loop_info) for a loop of the function and the
\* container a
CallUnrollLoop ==
    /\ pc = "direct"
    /\ \E loop \in Loops(blocks) : \E replace \in loop.body \ {loop.header} :
         Returned(loop, N("a"),
                  unroll_loop(blocks, build_definitions(blocks), livemap, typemap, loop,
                              N("a"), uniq, ir_max_label, replace, replace))

DirectSpec == DirectInit /\ [][CallUnrollLoop]_vars

\* the blocks l of the loop hold no getitem on arg nor on a variable a
\* definition of which is a call with arg as its first argument
NoGetitemOn(blks, ls, arg) ==
    \A l \in ls : \A i \in 1..Len(blks[l]) :
        (blks[l][i].k = "assign" /\ blks[l][i].op = "getitem") =>
            /\ blks[l][i].x # arg
            /\ \A d \in Range(DefsOf(build_definitions(blks), blks[l][i].x)) :
                  ~(d.op = "call" /\ d.y = arg)

\* C15: unroll_loop called for a loop without a getitem on the container
\* raises CompilerError, and no block of the function has changed when it
\* does.
C15_CompilerErrorFirst ==
    (pc \in {"returned", "raised"} /\ last.op = "direct"
       /\ NoGetitemOn(last.pre, last.body \cup {last.header}, last.arg))
    => (err = "CompilerError" /\ blocks = last.pre)

\* ------------------------------------------------------------------------
\* IterLoopCanonicalization (numba/untyped_passes.py)
\* ------------------------------------------------------------------------

\* a call with `extra` arguments after the first one
CallMore(t, f, a, extra) == [Call(t, f, a) EXCEPT !.n = extra]

\* len(call.args)
NArgs(st) == 1 + st.n

\* _accepted_calls = (literal_unroll,)
accepted_calls == {"literal_unroll"}

\* assess_loop, lines 1070-1080: the callee is the global literal_unroll
\* and the typemap gives the argument an accepted type.
\* "yes", "no" (False or None), or "KeyError" when get_definition raises
AssessCall(tm, loop, call, func) ==
    IF func.k = "KeyError" THEN "KeyError"
    ELSE IF func.op # "global" THEN "no"
    ELSE IF func.g \notin accepted_calls THEN "no"
    ELSE IF call.y \in DOMAIN tm /\ tm[call.y].kind \in accepted_types
         THEN IF Cardinality(loop.entries) = 1 THEN "yes" ELSE "no"
         ELSE "no"

\* assess_loop, lines 1062-1069: the getiter is over the value of a call
\* with one argument
AssessTyped(defs, tm, loop, phi_val_defn) ==
    IF phi_val_defn.k = "KeyError" THEN "KeyError"
    ELSE IF ~IsExpr(phi_val_defn) THEN "no"
    ELSE IF phi_val_defn.op # "call" THEN "no"
    ELSE IF NArgs(phi_val_defn) # 1 THEN "no"
    ELSE AssessCall(tm, loop, phi_val_defn, get_definition(defs, phi_val_defn.x))

\* assess_loop, lines 1052-1082, were the typemap not looked at
AssessPhiUntyped(defs, tm, loop, phi) ==
    IF phi.k = "KeyError" THEN "no"
    ELSE IF phi.op # "getiter" THEN "no"
    ELSE IF Cardinality(loop.entries) = 1 THEN "yes" ELSE "no"

\* assess_loop, lines 1052-1082: phi is the definition of the value of the
\* iternext (get_definition raising makes it False); a typemap that is
\* None or empty is no typemap
AssessPhi(defs, tm, loop, phi) ==
    IF phi.k = "KeyError" THEN "no"
    ELSE IF phi.op # "getiter" THEN "no"
    ELSE IF tm # NoBlocks THEN AssessTyped(defs, tm, loop, get_definition(defs, phi.x))
    ELSE IF Cardinality(loop.entries) = 1 THEN "yes" ELSE "no"

\* assess_loop
assess_loop(blks, defs, tm, loop) ==
    LET iternexts == find_exprs(blks[loop.header], "iternext")
    IN IF Len(iternexts) # 1 THEN "no"
       ELSE AssessPhi(defs, tm, loop, get_definition(defs, iternexts[1].x))

\* inline_closure_call for the call target = get_range(X) that transform
\* puts before the getiter at position idx of block lbl: the block is split
\* at the call, the one block of get_range (range(len(a)), its variables
\* renamed, its argument bound to X, its return an assignment to target)
\* goes between the halves at a label above all labels.
\* Result: [blocks, ml, u]
inline_get_range(blks, lbl, idx, target, X, ml, u) ==
    LET b == blks[lbl]
        min_label == Max(DOMAIN blks \cup {ml}) + 1
        new_label == min_label + 1
        aV == mk_unique_var(<<"a", 0>>, u + 1)
        rg == mk_unique_var(<<"$range_gbl", 0>>, u + 2)
        lg == mk_unique_var(<<"$len_gbl", 0>>, u + 3)
        lv == mk_unique_var(<<"$len", 0>>, u + 4)
        rv == mk_unique_var(<<"$range", 0>>, u + 5)
        callee == << Copy(aV, X), Global(rg, "range"), Global(lg, "len"),
                     Call(lv, lg, aV), Call(rv, rg, lv), Copy(target, rv),
                     Jump(new_label) >>
    IN [blocks |-> [l \in DOMAIN blks \cup {min_label, new_label} |->
                      IF l = min_label THEN callee
                      ELSE IF l = new_label THEN SubSeq(b, idx, Len(b))
                      ELSE IF l = lbl THEN SubSeq(b, 1, idx - 1) \o << Jump(min_label) >>
                      ELSE blks[l]],
        ml |-> new_label,
        u |-> u + 5]

\* the positions of the statements of block b that assign an expression op
ExprsAt(b, o) == {i \in 1..Len(b) : b[i].k = "assign" /\ b[i].op = o}

\* transform, lines 1119-1131: the assignees of the pair_first expressions
\* of the header
pair_first_vars(header) == {header[i].tgt : i \in ExprsAt(header, "pair_first")}

\* get_assignee(x, loop.header): the positions of the header that assign x
AssigneesAt(header, x) == {i \in ExprsAt(header, "var") : header[i].x = x}

\* transform, lines 1127-1131: the induction variables and their aliases
induction_vars_of(header) ==
    pair_first_vars(header) \cup
    {header[Min(AssigneesAt(header, x))].tgt
       : x \in {v \in pair_first_vars(header) : AssigneesAt(header, v) # {}}}

\* transform, lines 1144-1147, were container and index swapped
induction_getitem_swapped(st, iterarg) == Getitem(st.tgt, st.x, iterarg)

\* transform, lines 1144-1147: ir.Expr.getitem(iterarg, stmt.value)
induction_getitem(st, iterarg) == Getitem(st.tgt, iterarg, st.x)

\* transform, lines 1139-1147: in the blocks to check, an assignment of an
\* induction variable becomes a getitem on the iterated value
ReplaceInduction(blks, check_blocks, induction_vars, iterarg) ==
    [l \in DOMAIN blks |->
       IF l \in check_blocks
       THEN [i \in 1..Len(blks[l]) |->
               IF blks[l][i].k = "assign" /\ blks[l][i].op = "var"
                    /\ blks[l][i].x \in induction_vars
               THEN induction_getitem(blks[l][i], iterarg)
               ELSE blks[l][i]]
       ELSE blks[l]]

\* transform, lines 1133-1137: body, exits and the successors of the exits
\* (in the CFG run_pass computed, blks0), the header taken out
check_blocks_of(blks0, loop) ==
    LET all == loop.body \cup loop.exits \cup UNION {Succs(blks0, l) : l \in loop.exits}
    IN (all \ {loop.header}) \cup ({loop.header} \ all)

\* transform, lines 1118-1156, r being what the inlining left.
\* Result: [err, blocks, u, ml]
TransformInlined(blks0, loop, iterarg, r) ==
    IF \E x \in pair_first_vars(r.blocks[loop.header]) :
           AssigneesAt(r.blocks[loop.header], x) = {}
    THEN [err |-> "ValueError", blocks |-> r.blocks, u |-> r.u, ml |-> r.ml]
    ELSE [err |-> "",
          blocks |-> ReplaceInduction(r.blocks, check_blocks_of(blks0, loop),
                                      induction_vars_of(r.blocks[loop.header]), iterarg),
          u |-> r.u,
          ml |-> r.ml]

\* transform, lines 1106-1117: the first getiter of the entry block, at
\* idx, is made to iterate call_get_range, the value of get_range called
\* on what it iterated; compile_to_numba_ir (line 1114) moves _max_label up
TransformAt(blks, blks0, loop, ml, u, loop_entry, idx, iterarg) ==
    TransformInlined(blks0, loop, iterarg,
        inline_get_range([blks EXCEPT ![loop_entry][idx].x =
                                        mk_unique_var(<<"call_get_range", 0>>, u + 2)],
                         loop_entry, idx, mk_unique_var(<<"call_get_range", 0>>, u + 2),
                         blks[loop_entry][idx].x, ml + 1, u + 2))

\* transform.  blks0 are the blocks at the start of run_pass, from which
\* the loop and the CFG were computed.  Result: [err, blocks, u, ml]
transform(blks, blks0, loop, ml, u) ==
    LET loop_entry == CHOOSE e \in loop.entries : TRUE
        phi == get_definition(build_definitions(blks),
                              find_exprs(blks[loop.header], "iternext")[1].x)
    IN IF ExprsAt(blks[loop_entry], "getiter") = {}
       THEN [err |-> "ValueError",
             blocks |-> [blks EXCEPT ![loop_entry] =
                           << Global(mk_unique_var(<<"get_range_gbl", 0>>, u + 1), "get_range") >>
                           \o @],
             u |-> u + 1,
             ml |-> ml]
       ELSE TransformAt(blks, blks0, loop, ml, u, loop_entry,
                        Min(ExprsAt(blks[loop_entry], "getiter")), phi.x)

\* run_pass, lines 1169-1171: the loop was transformed; r is what
\* transform left.  st = [blocks, u, ml, err, done, records]
CanonDone(st, loop, r) ==
    [blocks |-> r.blocks, u |-> r.u, ml |-> r.ml, err |-> r.err,
     done |-> IF r.err = "" THEN st.done \cup {loop.header} ELSE st.done,
     records |-> IF r.err = ""
                 THEN Append(st.records, [loop |-> loop, pre |-> st.blocks, post |-> r.blocks])
                 ELSE st.records]

\* run_pass, lines 1165-1174: one loop is assessed and, if accepted,
\* transformed
CanonOne(st, blks0, loop, stat) ==
    IF stat = "KeyError" THEN [st EXCEPT !.err = "KeyError"]
    ELSE IF stat = "no" THEN st
    ELSE CanonDone(st, loop, transform(st.blocks, blks0, loop, st.ml, st.u))

\* run_pass, lines 1164-1174: the loops in the order of loops.items()
RECURSIVE CanonLoops(_, _, _, _, _)
CanonLoops(st, blks0, tm, order, i) ==
    IF i > Len(order) \/ st.err # "" THEN st
    ELSE CanonLoops(CanonOne(st, blks0, order[i],
                             assess_loop(st.blocks, build_definitions(st.blocks), tm, order[i])),
                    blks0, tm, order, i + 1)

\* ------------------------------------------------------------------------
\* The functions handed to IterLoopCanonicalization: IR as the bytecode
\* translation leaves it, every for loop driven by a getiter
\* ------------------------------------------------------------------------

\* the iterable of for loop j and its getiter: literal_unroll(a)
\* ("unroll"), a itself ("plain"), range(n) ("range"), or literal_unroll
\* called with a second argument ("two")
Source(kind, j, a) ==
    IF kind = "unroll"
    THEN << Global(T("$lu_gbl", j), "literal_unroll"),
            Call(T("$lu", j), T("$lu_gbl", j), a),
            Assign(T("$phi", j), "getiter", T("$lu", j), NoVar) >>
    ELSE IF kind = "two"
    THEN << Global(T("$lu_gbl", j), "literal_unroll"),
            CallMore(T("$lu", j), T("$lu_gbl", j), a, 1),
            Assign(T("$phi", j), "getiter", T("$lu", j), NoVar) >>
    ELSE IF kind = "range"
    THEN << Global(T("$range_gbl", j), "range"),
            Call(T("$range", j), T("$range_gbl", j), N("n")),
            Assign(T("$phi", j), "getiter", T("$range", j), NoVar) >>
    ELSE << Assign(T("$phi", j), "getiter", a, NoVar) >>

SourceKinds == {"unroll", "plain", "range", "two"}

\* for x in <iterable over a>: acc += x
\* return acc
Iter1(kind) ==
    (0 :> Args \o Source(kind, 1, N("a")) \o << Jump(14) >>) @@
    (14 :> Header(1, 16, 28)) @@
    (16 :> << Copy(N("x"), T("$i", 1)), Add(N("acc"), N("x")), Jump(14) >>) @@
    (28 :> << Return(N("acc")) >>)

\* for x in <iterable over a>: acc += x
\* for y in <iterable over b>: acc += y
\* return acc
Iter2(k1, k2) ==
    (0 :> Args \o Source(k1, 1, N("a")) \o << Jump(14) >>) @@
    (14 :> Header(1, 16, 28)) @@
    (16 :> << Copy(N("x"), T("$i", 1)), Add(N("acc"), N("x")), Jump(14) >>) @@
    (28 :> Source(k2, 2, N("b")) \o << Jump(42) >>) @@
    (42 :> Header(2, 44, 56)) @@
    (44 :> << Copy(N("y"), T("$i", 2)), Add(N("acc"), N("y")), Jump(42) >>) @@
    (56 :> << Return(N("acc")) >>)

\* for x in <iterable over a>:
\*     for y in <iterable over b>: acc += y
\* return acc
IterNest(k1, k2) ==
    (0 :> Args \o Source(k1, 1, N("a")) \o << Jump(14) >>) @@
    (14 :> Header(1, 16, 60)) @@
    (16 :> << Copy(N("x"), T("$i", 1)) >> \o Source(k2, 2, N("b")) \o << Jump(30) >>) @@
    (30 :> Header(2, 32, 44)) @@
    (32 :> << Copy(N("y"), T("$i", 2)), Add(N("acc"), N("y")), Jump(30) >>) @@
    (44 :> << Jump(14) >>) @@
    (60 :> << Return(N("acc")) >>)

\* t = a if n else b
\* for x in t: acc += x
\* return acc
IterEither ==
    (0 :> Args \o << Branch(N("n"), 4, 8) >>) @@
    (4 :> << Copy(N("t"), N("a")), Jump(12) >>) @@
    (8 :> << Copy(N("t"), N("b")), Jump(12) >>) @@
    (12 :> Source("plain", 1, N("t")) \o << Jump(14) >>) @@
    (14 :> Header(1, 16, 28)) @@
    (16 :> << Copy(N("x"), T("$i", 1)), Add(N("acc"), N("x")), Jump(14) >>) @@
    (28 :> << Return(N("acc")) >>)

\* a loop over literal_unroll(a) whose header is entered from two blocks
IterTwoEntries ==
    (0 :> Args \o Source("unroll", 1, N("a")) \o << Branch(N("n"), 6, 10) >>) @@
    (6 :> << Const(N("acc"), 1), Jump(14) >>) @@
    (10 :> << Jump(14) >>) @@
    (14 :> Header(1, 16, 28)) @@
    (16 :> << Copy(N("x"), T("$i", 1)), Add(N("acc"), N("x")), Jump(14) >>) @@
    (28 :> << Return(N("acc")) >>)

\* the functions with one container
OneIterable == {Iter1(k) : k \in SourceKinds} \cup {IterEither, IterTwoEntries}

\* the functions with two containers
TwoIterables ==
    {Iter2("unroll", "plain"), Iter2("unroll", "unroll"),
     IterNest("plain", "unroll"), IterNest("unroll", "unroll")}

\* state.typemap: None (no partial typing ran) or a partial typemap
CanonTypeMaps(b) ==
    {NoBlocks} \cup (IF b \in OneIterable THEN TypeMaps1 ELSE TypeMaps2)

\* bound on the number of times the pass is run on one function
MaxRuns == 2

\* what the last run of IterLoopCanonicalization.run_pass did: the headers
\* of the loops it transformed and, for each, the blocks before and after
CanonLast == [op |-> "canon", runs |-> 0, done |-> {}, records |-> <<>>, pre |-> NoBlocks]

CanonInit ==
    /\ blocks \in OneIterable \cup TwoIterables
    /\ typemap \in CanonTypeMaps(blocks)
    /\ ir_max_label = 0
    /\ livemap = compute_live_map(blocks)
    /\ typing = << "partial", "partial" >>
    /\ uniq = 0
    /\ pc = "canon"
    /\ mutated = FALSE
    /\ err = ""
    /\ entry = [blocks |-> blocks, typemap |-> typemap, typing |-> typing]
    /\ last = CanonLast

\* the orders in which a dict with the keys S can be iterated
Orders(S) == {sq \in [1..Cardinality(S) -> S] : Range(sq) = S}

\* run_pass, lines 1176-1177 (or the exception that ended it): st is what
\* the loop over the loops left
CanonReturn(st) ==
    /\ IF st.err # "" \/ ~simplify_ok(st.blocks)
       THEN /\ blocks' = st.blocks
            /\ pc' = "raised"
            /\ err' = IF st.err # "" THEN st.err
                      ELSE IF WellFormed(st.blocks) THEN "KeyError" ELSE "AssertionError"
            /\ mutated' = mutated
       ELSE /\ blocks' = simplify_CFG(st.blocks)
            /\ pc' = "canon"
            /\ err' = ""
            /\ mutated' = (st.done # {})
    /\ livemap' = IF st.done # {} THEN compute_live_map(st.blocks) ELSE livemap
    /\ uniq' = st.u
    /\ ir_max_label' = st.ml
    /\ entry' = [blocks |-> blocks, typemap |-> typemap, typing |-> typing]
    /\ last' = [op |-> "canon", runs |-> last.runs + 1, done |-> st.done,
                records |-> st.records, pre |-> blocks]
    /\ UNCHANGED <<typemap, typing>>

\* IterLoopCanonicalization.run_pass
Canonicalize ==
    /\ pc = "canon"
    /\ last.runs < MaxRuns
    /\ \E order \in Orders(Loops(blocks)) :
         CanonReturn(CanonLoops([blocks |-> blocks, u |-> uniq, ml |-> ir_max_label,
                                 err |-> "", done |-> {}, records |-> <<>>],
                                blocks, typemap, order, 1))

\* the pass manager runs MixedContainerUnroller after the canonicalisation
\* (the pipeline of the tests, after partial type inference)
Handover ==
    /\ pc = "canon"
    /\ last.runs >= 1
    /\ typemap # NoBlocks
    /\ pc' = "entry"
    /\ mutated' = FALSE
    /\ entry' = [blocks |-> blocks, typemap |-> typemap, typing |-> typing]
    /\ last' = NoLast
    /\ UNCHANGED <<blocks, livemap, typemap, typing, uniq, ir_max_label, err>>

PipelineNext == Canonicalize \/ Handover \/ RunPassEntry \/ ApplyTransform \/ Reset

PipelineSpec == CanonInit /\ [][PipelineNext]_vars

\* ------------------------------------------------------------------------
\* What the properties of the canonicalisation are stated in
\* ------------------------------------------------------------------------

\* run_pass of IterLoopCanonicalization has returned
Canonicalized == pc = "canon" /\ last.op = "canon" /\ last.runs >= 1

\* the loop has one entry and its header one iternext, over a value that a
\* getiter defines
GetiterLoop(blks, defs, loop) ==
    /\ Cardinality(loop.entries) = 1
    /\ Len(find_exprs(blks[loop.header], "iternext")) = 1
    /\ get_definition(defs, find_exprs(blks[loop.header], "iternext")[1].x).k = "assign"
    /\ get_definition(defs, find_exprs(blks[loop.header], "iternext")[1].x).op = "getiter"

\* the value v is that of a call of the global literal_unroll with one
\* argument, to which tm gives a Tuple or UniTuple type
MarkedTuple(defs, tm, v) ==
    LET c == get_definition(defs, v)
    IN /\ c.k = "assign" /\ c.op = "call" /\ c.n = 0
       /\ get_definition(defs, c.x).k = "assign"
       /\ get_definition(defs, c.x).op = "global"
       /\ get_definition(defs, c.x).g = "literal_unroll"
       /\ c.y \in DOMAIN tm
       /\ tm[c.y].kind \in {"Tuple", "UniTuple"}

\* the loops of blks that are to be canonicalised under the typemap tm
ToCanonicalize(blks, tm) ==
    LET defs == build_definitions(blks)
    IN {loop.header : loop \in
          {lp \in Loops(blks) :
             /\ GetiterLoop(blks, defs, lp)
             /\ tm = NoBlocks \/
                MarkedTuple(defs, tm,
                   get_definition(defs, find_exprs(blks[lp.header], "iternext")[1].x).x)}}

\* the variable v stands for, through assignments of one variable to
\* another
RECURSIVE VarRoot(_, _, _)
VarRoot(defs, v, fuel) ==
    LET ds == DefsOf(defs, v)
    IN IF fuel > 0 /\ Len(ds) = 1 /\ ds[1].op = "var"
       THEN VarRoot(defs, ds[1].x, fuel - 1) ELSE v

CountGetiter(blks) ==
    Len(SelectSeq(AllStmts(blks), LAMBDA st : st.k = "assign" /\ st.op = "getiter"))

\* the getiter behind the iternext of the header iterates range(len(X))
IteratesRangeLen(blks, header, X) ==
    LET defs == build_definitions(blks)
        phi == get_definition(defs, find_exprs(blks[header], "iternext")[1].x)
        range_call == get_definition(defs, phi.x)
        len_call == get_definition(defs, range_call.y)
    IN /\ phi.k = "assign" /\ phi.op = "getiter"
       /\ range_call.k = "assign" /\ range_call.op = "call"
       /\ get_definition(defs, range_call.x).g = "range"
       /\ len_call.k = "assign" /\ len_call.op = "call"
       /\ get_definition(defs, len_call.x).g = "len"
       /\ VarRoot(defs, len_call.y, Len(defs)) = X

\* one transform, rec = [loop, pre, post], did what C13 says
CanonicalForm(rec) ==
    LET h == rec.loop.header
        X == get_definition(build_definitions(rec.pre),
                            find_exprs(rec.pre[h], "iternext")[1].x).x
        iv == induction_vars_of(rec.pre[h])
    IN /\ CountGetiter(rec.post) = CountGetiter(rec.pre)
       /\ IteratesRangeLen(rec.post, h, VarRoot(build_definitions(rec.pre), X, Len(rec.pre[h]) + 99))
       /\ \A l \in rec.loop.body \ {h} : \A i \in 1..Len(rec.pre[l]) :
             IF rec.pre[l][i].k = "assign" /\ rec.pre[l][i].op = "var" /\ rec.pre[l][i].x \in iv
             THEN rec.post[l][i] = Getitem(rec.pre[l][i].tgt, X, rec.pre[l][i].x)
             ELSE rec.post[l][i] = rec.pre[l][i]

\* C11: a second run of IterLoopCanonicalization.run_pass, on the IR the
\* first run left, transforms no loop and returns mutated = False, with a
\* typemap and without.
C11_Idempotent ==
    (Canonicalized /\ last.runs >= 2) => (last.done = {} /\ mutated = FALSE)

\* C12: the loops a run transforms are, without a typemap, the one-entry
\* loops whose header has one iternext over a getiter; with a typemap,
\* those of them whose getiter is over a one-argument call of
\* literal_unroll on a variable the typemap types as Tuple or UniTuple.
\* Every other loop is left as it is.
C12_WhichLoops ==
    /\ Canonicalized =>
          /\ last.done = ToCanonicalize(last.pre, typemap)
          /\ last.done = {} => blocks = simplify_CFG(last.pre)
    /\ (pc = "raised" /\ last.op = "canon") =>
          last.done \subseteq ToCanonicalize(last.pre, typemap)

\* C12 happens: with a typemap, a run transformed a loop and left another
C12_Witness ==
    /\ Canonicalized /\ typemap # NoBlocks
    /\ last.done # {}
    /\ \E lp \in Loops(last.pre) : lp.header \notin last.done

\* C13: a transform keeps the number of getiter expressions, makes the
\* getiter of the loop iterate range(len(X)), X being what it iterated
\* before, and turns the assignments of the induction variable in the loop
\* into getitem(X, i).
C13_CanonicalForm ==
    last.op = "canon" => \A k \in DOMAIN last.records : CanonicalForm(last.records[k])

\* C13 happens: a loop was transformed whose body assigned the induction
\* variable
C13_Witness ==
    /\ Canonicalized /\ Len(last.records) >= 1
    /\ \E l \in last.records[1].loop.body : \E i \in 1..Len(last.records[1].post[l]) :
          last.records[1].post[l][i].op = "getitem"

\* C16 as stated: after either pass state.typemap is what it was before.
C16_TypemapReadOnly ==
    (Canonicalized \/ pc \in {"done", "raised"}) => typemap = entry.typemap

\* C16, amended: IterLoopCanonicalization.run_pass leaves state.typemap as
\* it was; MixedContainerUnroller.run_pass leaves it as it was while it
\* runs and when it raises, and has replaced it by the empty typemap when
\* it returns.
C16_TypemapKeptOrReset ==
    /\ (last.op = "canon" \/ pc \in {"entry", "loop", "reset", "raised"})
          => typemap = entry.typemap
    /\ pc = "done" => typemap = NoBlocks

\* C16 happens: both passes ran on a function with a typemap, and the
\* second returned
C16_Witness ==
    pc = "done" /\ entry.typemap # NoBlocks /\ typemap = NoBlocks /\ mutated

\* ========================================================================
\* Linear algebra lowering (numba/targets/linalg.py)
\*
\* The specifications of this part use pc, err, entry and last only:
\* entry is the call being lowered or run, last records what was emitted
\* or which routines were called; the other variables stay as they start.
\* ========================================================================

\* ------------------------------------------------------------------------
\* make_contiguous as used by dot_2: what is emitted at lowering time
\* ------------------------------------------------------------------------
ArrayTy(layout, ndim) == [kind |-> "Array", layout |-> layout, ndim |-> ndim]

\* a type that is not types.Array
OtherTy == [kind |-> "Other", layout |-> "", ndim |-> 0]

ArgTys == {ArrayTy(l, d) : l \in {"C", "F", "A"}, d \in {1}} \cup {OtherTy}

\* make_contiguous, line 86, were only the layout C passed through
passes_through_c_only(ty) == ty.kind # "Array" \/ ty.layout \in {"C"}

\* make_contiguous, line 86: not isinstance(ty, types.Array) or ty.layout in 'CF'
passes_through(ty) == ty.kind # "Array" \/ ty.layout \in {"C", "F"}

\* the i-th value of args, and the value array_copy returns for it
ArgVal(i) == << "arg", i >>
CopyVal(i) == << "copy", i >>

Emitted(ev, ty, val) == [ev |-> ev, ty |-> ty, val |-> val]

\* make_contiguous, lines 82-94: the loop over zip(sig.args, args), from
\* the i-th argument on; st = [newtys, newargs, copies, events]
RECURSIVE make_contiguous_from(_, _, _)
make_contiguous_from(sig_args, i, st) ==
    IF i > Len(sig_args) THEN st
    ELSE IF passes_through(sig_args[i])
    THEN make_contiguous_from(sig_args, i + 1,
            [st EXCEPT !.newtys = Append(@, sig_args[i]),
                       !.newargs = Append(@, ArgVal(i))])
    ELSE make_contiguous_from(sig_args, i + 1,
            [st EXCEPT !.newtys = Append(@, [sig_args[i] EXCEPT !.layout = "C"]),
                       !.newargs = Append(@, CopyVal(i)),
                       !.copies = Append(@, << [sig_args[i] EXCEPT !.layout = "C"], CopyVal(i) >>),
                       !.events = Append(@, Emitted("array_copy", sig_args[i], ArgVal(i)))])

\* make_contiguous, lines 96-97: the decrefs of the copies
nrt_decrefs(copies) == [k \in DOMAIN copies |-> Emitted("nrt_decref", copies[k][1], copies[k][2])]

NoEmission ==
    [op |-> "lower", newtys |-> <<>>, newargs |-> <<>>, copies |-> <<>>, events |-> <<>>]

ContigInit ==
    /\ entry \in [sig_args : [1..2 -> ArgTys] \cup [1..3 -> ArgTys], blas_kind : BOOLEAN]
    /\ last = NoEmission
    /\ pc = "enter"
    /\ err = ""
    /\ blocks = NoBlocks /\ livemap = NoBlocks /\ typemap = NoBlocks
    /\ typing = << "None", "None" >>
    /\ uniq = 0 /\ ir_max_label = 0 /\ mutated = FALSE

\* dot_2, line 325: the with statement enters make_contiguous, which runs
\* to its yield
EnterContext ==
    /\ pc = "enter"
    /\ last' = make_contiguous_from(entry.sig_args, 1, last)
    /\ pc' = "body"
    /\ UNCHANGED <<blocks, livemap, typemap, typing, uniq, ir_max_label, mutated, err, entry>>

\* dot_2, lines 326-336: the body of the with statement emits the call on
\* the new signature and arguments, or get_blas_kind (line 52) raises
EmitCall ==
    /\ pc = "body"
    /\ IF entry.blas_kind
       THEN /\ last' = [last EXCEPT !.events = Append(@, Emitted("call", last.newtys, last.newargs))]
            /\ pc' = "exit"
            /\ err' = err
       ELSE /\ last' = last
            /\ pc' = "raised"
            /\ err' = "TypeError"
    /\ UNCHANGED <<blocks, livemap, typemap, typing, uniq, ir_max_label, mutated, entry>>

\* the with statement is left: make_contiguous resumes after its yield
ExitContext ==
    /\ pc = "exit"
    /\ last' = [last EXCEPT !.events = @ \o nrt_decrefs(last.copies)]
    /\ pc' = "lowered"
    /\ UNCHANGED <<blocks, livemap, typemap, typing, uniq, ir_max_label, mutated, err, entry>>

ContigNext == EnterContext \/ EmitCall \/ ExitContext

ContigSpec == ContigInit /\ [][ContigNext]_vars

\* the positions in events of the events ev on the value val
EventsOn(events, ev, val) == {k \in DOMAIN events : events[k].ev = ev /\ events[k].val = val}

\* the position of the call in events, 0 if there is none
CallAt(events) ==
    IF \E k \in DOMAIN events : events[k].ev = "call"
    THEN CHOOSE k \in DOMAIN events : events[k].ev = "call" ELSE 0

\* C19: an array argument whose layout is neither C nor F is copied once
\* to a C array, the copy is what the call gets, and the copy is released
\* once, after the call was emitted; any other argument is passed as it
\* is, is not copied and is not released.
C19_AcquireRelease ==
    last.op = "lower" =>
      \A i \in DOMAIN entry.sig_args :
        LET ty == entry.sig_args[i]
            noncontig == ty.kind = "Array" /\ ty.layout # "C" /\ ty.layout # "F"
            copied == EventsOn(last.events, "array_copy", ArgVal(i))
            released == EventsOn(last.events, "nrt_decref", CopyVal(i))
            call == CallAt(last.events)
        IN /\ EventsOn(last.events, "nrt_decref", ArgVal(i)) = {}
           /\ Cardinality(copied) = (IF noncontig /\ pc # "enter" THEN 1 ELSE 0)
           /\ Cardinality(released) = (IF noncontig /\ pc = "lowered" THEN 1 ELSE 0)
           /\ \A k \in released : call # 0 /\ k > call
           /\ call # 0 =>
                /\ \A k \in copied : k < call
                /\ last.events[call].val[i] = (IF noncontig THEN CopyVal(i) ELSE ArgVal(i))
                /\ last.events[call].ty[i] = (IF noncontig THEN ArrayTy("C", ty.ndim) ELSE ty)

\* C19 happens: the call was lowered with a copied argument, one passed
\* through and one that is not an array
C19_Witness ==
    /\ last.op = "lower" /\ pc = "lowered"
    /\ \E i, j, k \in DOMAIN entry.sig_args :
         /\ entry.sig_args[i].layout = "A"
         /\ entry.sig_args[j].layout = "F"
         /\ entry.sig_args[k].kind = "Other"

\* ------------------------------------------------------------------------
\* The lowered functions at run time
\* ------------------------------------------------------------------------

\* 2**31 - 1 (line 104)
maxint == 2147483647

\* the intp value hi * 2**31 + lo, 0 <= lo <= maxint
Intp(hi, lo) == [hi |-> hi, lo |-> lo]

\* a > b on intp values
Gt(a, b) == a.hi > b.hi \/ (a.hi = b.hi /\ a.lo > b.lo)

\* min(a, b) on intp values
MinIntp(a, b) == IF Gt(a, b) THEN b ELSE a

\* the sizes an array dimension is drawn from: 1, 2**31 - 1 and 2**31
Dims == {Intp(0, 1), Intp(0, maxint), Intp(1, 0)}

\* the codes a wrapper of _helperlib.c / _lapack.c returns (a C int)
RetCodes == {-1, 0, 1}

Layouts == {"C", "F"}

\* a routine call of the lowered code and the code that receives its result
Site(fn, dims, handler) == [fn |-> fn, dims |-> dims, handler |-> handler]

\* the function raises before any routine is called
RaisesFirst(e, msg) == [err |-> e, msg |-> msg, sites |-> <<>>]

\* the function goes on to call the routines of sites
Calls(sites) == [err |-> "", msg |-> <<>>, sites |-> sites]

\* check_c_int on each value of ns, then what follows
check_c_int(ns, then) ==
    IF \E i \in DOMAIN ns : Gt(ns[i], Intp(0, maxint))
    THEN RaisesFirst("OverflowError", << "array size too large to fit in C int" >>)
    ELSE then

call_xxdot(n) == Site("numba_xxdot", << n >>, "check_blas_return")

call_xxgemv(m_layout, m_shapes) ==
    Site("numba_xxgemv",
         IF m_layout = "F" THEN << m_shapes[1], m_shapes[2], m_shapes[1] >>
         ELSE << m_shapes[2], m_shapes[1], m_shapes[2] >>,
         "check_blas_return")

\* get_array_param of call_xxgemm: the size of the inner dimension
inner_dim(layout, shapes) == IF layout = "C" THEN shapes[2] ELSE shapes[1]

call_xxgemm(x_layout, x_shapes, y_layout, y_shapes, out_shapes) ==
    Site("numba_xxgemm",
         << y_shapes[2], x_shapes[1], x_shapes[2],
            inner_dim(y_layout, y_shapes), inner_dim(x_layout, x_shapes),
            inner_dim("C", out_shapes) >>,
         "check_blas_return")

SizesMsg == "incompatible array sizes for np.dot(a, b)"
OutMsg == "incompatible output array size for np.dot(a, b, out)"

\* the check_args functions; << >> when they return
check_args_vv(a, b) ==
    IF a[1] # b[1] THEN << SizesMsg, "(vector * vector)" >> ELSE << >>

check_args_vm(a, b, out) ==
    IF a[1] # b[1] THEN << SizesMsg, "(vector * matrix)" >>
    ELSE IF out # << b[2] >> THEN << OutMsg, "(vector * matrix)" >>
    ELSE << >>

check_args_mv(a, b, out) ==
    IF b[1] # a[2] THEN << SizesMsg, "(matrix * vector)" >>
    ELSE IF out # << a[1] >> THEN << OutMsg, "(matrix * vector)" >>
    ELSE << >>

\* check_args of dot_3_mm, were the out array not looked at
check_args_mm_operands_only(a, b, out) ==
    IF a[2] # b[1] THEN << SizesMsg, "(matrix * matrix)" >>
    ELSE << >>

check_args_mm(a, b, out) ==
    IF a[2] # b[1] THEN << SizesMsg, "(matrix * matrix)" >>
    ELSE IF out # << a[1], b[2] >> THEN << OutMsg, "(matrix * matrix)" >>
    ELSE << >>

\* the lowered check_args raised msg, or returned and the rest follows
Checked(msg, then) == IF msg # << >> THEN RaisesFirst("ValueError", msg) ELSE then

dot_2_vv(in) ==
    Checked(check_args_vv(in.a, in.b),
            check_c_int(<< in.a[1] >>, Calls(<< call_xxdot(in.a[1]) >>)))

dot_3_vm(in) ==
    IF Len(in.a) < Len(in.b)
    THEN Checked(check_args_vm(in.a, in.b, in.out),
                 check_c_int(in.b, Calls(<< call_xxgemv(in.yl, in.b) >>)))
    ELSE Checked(check_args_mv(in.a, in.b, in.out),
                 check_c_int(in.a, Calls(<< call_xxgemv(in.xl, in.a) >>)))

\* dot_3_mm, lines 455-483, were the general product called whatever the
\* shapes
dot_3_mm_call_general(in) ==
    call_xxgemm(in.xl, in.a, in.yl, in.b, in.out)

\* dot_3_mm, lines 455-483: the routine the shapes select
dot_3_mm_call(in) ==
    IF in.b[2] = Intp(0, 1)
    THEN IF in.a[1] = Intp(0, 1) THEN call_xxdot(in.a[2])
         ELSE call_xxgemv(in.xl, in.a)
    ELSE IF in.a[1] = Intp(0, 1) THEN call_xxgemv(in.yl, in.b)
         ELSE call_xxgemm(in.xl, in.a, in.yl, in.b, in.out)

dot_3_mm(in) ==
    Checked(check_args_mm(in.a, in.b, in.out),
            check_c_int(<< in.a[1], in.a[2], in.b[2] >>, Calls(<< dot_3_mm_call(in) >>)))

NotFinite == RaisesFirst("LinAlgError", << "Array must not contain infs or NaNs." >>)

inv_impl(in) ==
    IF in.a[1] # in.a[2]
    THEN RaisesFirst("LinAlgError", << "Last 2 dimensions of the array must be square." >>)
    ELSE IF ~in.finite THEN NotFinite
    ELSE Calls(<< Site("numba_xxgetrf", << in.a[2], in.a[2], in.a[2] >>, "_inv_err_handler"),
                  Site("numba_ez_xxgetri", << in.a[2], in.a[2] >>, "_inv_err_handler") >>)

qr_impl(in) ==
    IF ~in.finite THEN NotFinite
    ELSE Calls(<< Site("numba_ez_geqrf", << in.a[1], in.a[2], in.a[1] >>, "qr_impl"),
                  Site("numba_ez_xxgqr",
                       << in.a[1], MinIntp(in.a[1], in.a[2]), MinIntp(in.a[1], in.a[2]), in.a[1] >>,
                       "_handle_err_maybe_convergence_problem") >>)

\* cut_idx of pinv_impl: one more than the index of the last singular
\* value above the threshold
cut_idx(in) == IF in.cut = "all" THEN MinIntp(in.a[1], in.a[2]) ELSE Intp(0, 1)

pinv_impl(in) ==
    IF ~in.finite THEN NotFinite
    ELSE Calls(<< Site("numba_ez_gesdd",
                       << in.a[1], in.a[2], in.a[1], in.a[1], MinIntp(in.a[1], in.a[2]) >>,
                       "_handle_err_maybe_convergence_problem"),
                  Site("numba_xxgemm",
                       << in.a[2], in.a[1], cut_idx(in), MinIntp(in.a[1], in.a[2]),
                          in.a[1], in.a[2] >>,
                       "pinv_impl") >>)

Impl(in) ==
    CASE in.op = "dot_2_vv" -> dot_2_vv(in)
      [] in.op = "dot_3_vm" -> dot_3_vm(in)
      [] in.op = "dot_3_mm" -> dot_3_mm(in)
      [] in.op = "inv_impl" -> inv_impl(in)
      [] in.op = "qr_impl" -> qr_impl(in)
      [] in.op = "pinv_impl" -> pinv_impl(in)

\* what the code after a routine call does with the code returned
Continues == [out |-> "continue", err |-> ""]
Fatal == [out |-> "fatal", err |-> ""]
RaiseError(e) == [out |-> "raise", err |-> e]

check_blas_return(res) == IF res # 0 THEN Fatal ELSE Continues

inv_err_handler(r) ==
    IF r # 0 THEN (IF r < 0 THEN Fatal ELSE RaiseError("LinAlgError")) ELSE Continues

handle_err_maybe_convergence_problem(r) ==
    IF r # 0 THEN (IF r < 0 THEN Fatal ELSE RaiseError("ValueError")) ELSE Continues

\* qr_impl, lines 976-978
geqrf_ret(ret) == IF ret < 0 THEN Fatal ELSE Continues

\* pinv_impl, lines 1562-1577: r is assigned and not read
gemm_r(r) == Continues

Handle(handler, res) ==
    CASE handler = "check_blas_return" -> check_blas_return(res)
      [] handler = "_inv_err_handler" -> inv_err_handler(res)
      [] handler = "_handle_err_maybe_convergence_problem" -> handle_err_maybe_convergence_problem(res)
      [] handler = "qr_impl" -> geqrf_ret(res)
      [] handler = "pinv_impl" -> gemm_r(res)

Shapes(n) == [1..n -> Dims]

DotInput(op, a, b, out, xl, yl) ==
    [op |-> op, a |-> a, b |-> b, out |-> out, xl |-> xl, yl |-> yl,
     finite |-> TRUE, cut |-> "all"]

LapackInput(op, a, finite, cut) ==
    [op |-> op, a |-> a, b |-> <<>>, out |-> <<>>, xl |-> "C", yl |-> "C",
     finite |-> finite, cut |-> cut]

DotOps == {"dot_2_vv", "dot_3_vm", "dot_3_mm"}

LinalgInputs ==
    {DotInput("dot_2_vv", a, b, <<>>, "C", "C") : a \in Shapes(1), b \in Shapes(1)}
    \cup {DotInput("dot_3_vm", a, b, out, "C", yl) :
            a \in Shapes(1), b \in Shapes(2), out \in Shapes(1), yl \in Layouts}
    \cup {DotInput("dot_3_vm", a, b, out, xl, "C") :
            a \in Shapes(2), b \in Shapes(1), out \in Shapes(1), xl \in Layouts}
    \cup {DotInput("dot_3_mm", a, b, out, ls[1], ls[2]) :
            a \in Shapes(2), b \in Shapes(2), out \in Shapes(2), ls \in Layouts \X Layouts}
    \cup {LapackInput(op, a, f, "all") :
            op \in {"inv_impl", "qr_impl"}, a \in Shapes(2), f \in BOOLEAN}
    \cup {LapackInput("pinv_impl", a, f, c) :
            a \in Shapes(2), f \in BOOLEAN, c \in {"all", "one"}}

NoCalls == [op |-> "linalg", pending |-> <<>>, calls |-> <<>>, msg |-> <<>>]

LinalgInit ==
    /\ entry \in LinalgInputs
    /\ last = NoCalls
    /\ pc = "start"
    /\ err = ""
    /\ blocks = NoBlocks /\ livemap = NoBlocks /\ typemap = NoBlocks
    /\ typing = << "None", "None" >>
    /\ uniq = 0 /\ ir_max_label = 0 /\ mutated = FALSE

\* the function is entered: its checks run, up to the first routine call
Enter(r) ==
    /\ pc' = IF r.err = "" THEN "calls" ELSE "raised"
    /\ err' = r.err
    /\ last' = [last EXCEPT !.pending = r.sites, !.msg = r.msg]

CallImpl ==
    /\ pc = "start"
    /\ Enter(Impl(entry))
    /\ UNCHANGED <<blocks, livemap, typemap, typing, uniq, ir_max_label, mutated, entry>>

\* the next routine is called, returns res, and the code after the call
\* acts on res
Called(site, res, h) ==
    /\ last' = [last EXCEPT !.pending = Tail(@),
                  !.calls = Append(@, [fn |-> site.fn, dims |-> site.dims, res |-> res,
                                       out |-> h.out, err |-> h.err])]
    /\ pc' = CASE h.out = "continue" -> "calls"
               [] h.out = "fatal" -> "fatal"
               [] h.out = "raise" -> "raised"
    /\ err' = h.err

CallRoutine ==
    /\ pc = "calls"
    /\ last.pending # <<>>
    /\ \E res \in RetCodes : Called(Head(last.pending), res, Handle(Head(last.pending).handler, res))
    /\ UNCHANGED <<blocks, livemap, typemap, typing, uniq, ir_max_label, mutated, entry>>

\* the function returns its result
ReturnResult ==
    /\ pc = "calls"
    /\ last.pending = <<>>
    /\ pc' = "returned"
    /\ UNCHANGED <<blocks, livemap, typemap, typing, uniq, ir_max_label, mutated, err, entry, last>>

LinalgNext == CallImpl \/ CallRoutine \/ ReturnResult

LinalgSpec == LinalgInit /\ [][LinalgNext]_vars

\* C17: whatever routine returned it, a code of zero lets the function go
\* on, a negative code aborts the process, and a positive code is raised
\* as LinAlgError or ValueError.
C17_ReturnCodes ==
    last.op = "linalg" =>
      \A i \in DOMAIN last.calls :
        /\ last.calls[i].res = 0 => last.calls[i].out = "continue"
        /\ last.calls[i].res < 0 => last.calls[i].out = "fatal"
        /\ last.calls[i].res > 0 =>
              last.calls[i].out = "raise" /\ last.calls[i].err \in {"LinAlgError", "ValueError"}

\* C18: no routine is called with a dimension above 2**31 - 1; a function
\* given such a dimension raises OverflowError instead.
C18_DimsFitCInt ==
    last.op = "linalg" =>
      /\ \A i \in DOMAIN last.calls : \A j \in DOMAIN last.calls[i].dims :
            ~Gt(last.calls[i].dims[j], Intp(0, maxint))
      /\ \A i \in DOMAIN last.pending : \A j \in DOMAIN last.pending[i].dims :
            ~Gt(last.pending[i].dims[j], Intp(0, maxint))

\* the shape of np.dot(a, b)
DotShape(a, b) ==
    (IF Len(a) = 2 THEN << a[1] >> ELSE << >>) \o (IF Len(b) = 2 THEN << b[2] >> ELSE << >>)

\* C20: in the dot implementations, operands whose inner dimensions differ
\* raise ValueError 'incompatible array sizes ...', an out array of another
\* shape than the product raises ValueError 'incompatible output array
\* size ...', whatever the sizes are, and no BLAS routine is called.
C20_ShapesChecked ==
    (last.op = "linalg" /\ entry.op \in DotOps /\ pc # "start") =>
      IF entry.a[Len(entry.a)] # entry.b[1]
      THEN pc = "raised" /\ err = "ValueError" /\ last.msg[1] = SizesMsg /\ last.calls = <<>>
      ELSE IF entry.out # DotShape(entry.a, entry.b)
      THEN pc = "raised" /\ err = "ValueError" /\ last.msg[1] = OutMsg /\ last.calls = <<>>
      ELSE err # "ValueError"

\* C20 happens: an out array of the wrong shape was refused although a
\* dimension of the operands does not fit a C int
C20_Witness ==
    /\ last.op = "linalg" /\ entry.op = "dot_3_mm"
    /\ pc = "raised" /\ err = "ValueError" /\ last.msg[1] = OutMsg
    /\ Gt(entry.a[1], Intp(0, maxint))

\* the routine calls of the function, made and still to make
RoutineCalls ==
    [i \in DOMAIN last.calls |-> [fn |-> last.calls[i].fn, dims |-> last.calls[i].dims]]
    \o [i \in DOMAIN last.pending |-> [fn |-> last.pending[i].fn, dims |-> last.pending[i].dims]]

\* C21: dot_3_mm on x of shape (m, k) and y of shape (k, n) calls one BLAS
\* routine: xxdot over k when m = 1 and n = 1, xxgemv on x when n = 1 and
\* m # 1, xxgemv on y when m = 1 and n # 1, xxgemm otherwise.
C21_DegenerateDispatch ==
    (last.op = "linalg" /\ entry.op = "dot_3_mm" /\ pc # "start"
       /\ err \notin {"ValueError", "OverflowError"}) =>
      LET m == entry.a[1]
          k == entry.a[2]
          n == entry.b[2]
          one == Intp(0, 1)
      IN /\ Len(RoutineCalls) = 1
         /\ IF m = one /\ n = one
            THEN RoutineCalls[1].fn = "numba_xxdot" /\ RoutineCalls[1].dims = << k >>
            ELSE IF n = one
            THEN RoutineCalls[1].fn = "numba_xxgemv" /\ Range(RoutineCalls[1].dims) = {m, k}
            ELSE IF m = one
            THEN RoutineCalls[1].fn = "numba_xxgemv" /\ Range(RoutineCalls[1].dims) = {k, n}
            ELSE RoutineCalls[1].fn = "numba_xxgemm"

\* C21 happens: a one-row x was multiplied with a matrix y and the product
\* returned
C21_Witness ==
    /\ last.op = "linalg" /\ entry.op = "dot_3_mm" /\ pc = "returned"
    /\ entry.a[1] = Intp(0, 1) /\ entry.b[2] # Intp(0, 1)
    /\ Len(last.calls) = 1 /\ last.calls[1].fn = "numba_xxgemv"

\* the headers of the eligible loops of blks
EligibleHeaders(blks, tm) == {lp.header : lp \in EligibleLoops(blks, tm)}

\* C22: a call of apply_transform that returns True has unrolled one loop:
\* that loop was eligible and is no longer, and the other loops are
\* eligible exactly when they were, so that one eligible loop less is
\* left; a call that returns False or raises the nesting error has
\* unrolled nothing.
C22_OnePerCall ==
    /\ Unrolled =>
          /\ last.header \in EligibleHeaders(last.pre, entry.typemap)
          /\ EligibleHeaders(last.post, entry.typemap)
                = EligibleHeaders(last.pre, entry.typemap) \ {last.header}
          /\ Cardinality(EligibleLoops(blocks, entry.typemap))
                = Cardinality(EligibleLoops(last.pre, entry.typemap)) - 1
    /\ (last.calls >= 1 /\ last.op \in {"abort", "none", "nesting"}) => blocks = last.pre

\* C23: in a scan that reaches the nesting check, the loops on record are
\* the eligible loops, one record each: no record of an eligible loop is
\* overwritten by that of another.
C23_RecordPerLoop ==
    last.op \in {"nesting", "unroll"} =>
        /\ last.records = last.eligible
        /\ last.eligible = EligibleHeaders(last.pre, entry.typemap)

\* C24: run_pass never raises the CompilerError of unroll_loop: a loop
\* that apply_transform hands to unroll_loop has a getitem in its body
\* that the search of unroll_loop accepts, which unroll_loop swaps for a
\* typed_getitem.
C24_NoCompilerError ==
    /\ err # "CompilerError"
    /\ Unrolled =>
          \E l \in last.body \cup {last.header} : \E i \in 1..Len(last.pre[l]) :
              /\ Conforms(build_definitions(last.pre), entry.typemap, last.arg, last.pre[l][i]) = "yes"
              /\ last.swapped[l][i].op = "typed_getitem"

\* C24 happens: a loop that reads ref(a)[i] was handed to unroll_loop and
\* unrolled
C24_Witness ==
    /\ Unrolled
    /\ \E l \in last.body : \E i \in 1..Len(last.pre[l]) :
          last.pre[l][i].op = "getitem" /\ last.pre[l][i].x # last.arg

\* the label at which patch_in leaves block z of the switch
SwitchPlacedAt(z) == IF z = Min(DOMAIN last.switch) THEN last.replace ELSE z + last.offset

\* the jump and branch targets of block b, true target first
TargetsOf(b) == << Terminator(b).k, Terminator(b).tb, Terminator(b).fb >>

\* C25: in the unrolled body a target that referred to a block of the
\* switch or of a copy is shifted as that block is and still refers to it,
\* and a target that referred to a block outside the loop body (the
\* header, an exit) has the value it had, whatever the labels are.
C25_TargetsFollowBlocks ==
    Unrolled =>
        /\ \A z \in {y \in DOMAIN last.switch : IsTest(last.switch[y])} :
              /\ SwitchPlacedAt(z) \in DOMAIN last.post
              /\ TargetsOf(last.post[SwitchPlacedAt(z)])
                    = << "branch", Terminator(last.switch[z]).tb + last.offset,
                         Terminator(last.switch[z]).fb + last.offset >>
        /\ \A k \in DOMAIN last.copies : \A l \in last.body :
              /\ PlacedAt(last.copies[k], l) \in DOMAIN last.post
              /\ TargetsOf(last.post[PlacedAt(last.copies[k], l)])
                    = << Terminator(OrigBody[l]).k,
                         IF Terminator(OrigBody[l]).k \in {"jump", "branch"}
                         THEN ExpectedTarget(last.copies[k], Terminator(OrigBody[l]).tb) ELSE 0,
                         IF Terminator(OrigBody[l]).k = "branch"
                         THEN ExpectedTarget(last.copies[k], Terminator(OrigBody[l]).fb) ELSE 0 >>

\* the labels a block can pass control to
JumpTargets(b) ==
    IF Terminator(b).k = "jump" THEN {Terminator(b).tb}
    ELSE IF Terminator(b).k = "branch" THEN {Terminator(b).tb, Terminator(b).fb}
    ELSE {}

\* the labels at which patch_in leaves the blocks of copy c
CopyLabels(c) == {PlacedAt(c, l) : l \in last.body}

\* the labels at which patch_in leaves the blocks of the switch itself: its
\* tests and its else branch, not the sentinel blocks that the copies
\* replace nor their common exit
SwitchLabels ==
    LET sentinels == {z \in DOMAIN last.switch :
                        \E i \in 1..Len(last.switch[z]) : IsSentinel(last.switch[z][i])}
        exits == {Terminator(last.switch[z]).tb : z \in sentinels}
    IN {SwitchPlacedAt(z) : z \in (DOMAIN last.switch) \ (sentinels \cup exits)}

\* C26: after an unroll step every jump and branch target of the function
\* is the label of a block, before and after the CFG is simplified; the
\* copies of the body lie at pairwise disjoint sets of labels, disjoint
\* from the labels of the switch; and every block put in, but the one at
\* the reused label, has a label above the greatest label the function had.
C26_WellFormedBlocks ==
    Unrolled =>
        /\ \A l \in DOMAIN last.post : JumpTargets(last.post[l]) \subseteq DOMAIN last.post
        /\ \A l \in DOMAIN blocks : JumpTargets(blocks[l]) \subseteq DOMAIN blocks
        /\ \A j, k \in DOMAIN last.copies :
              /\ Cardinality(CopyLabels(last.copies[k])) = Cardinality(last.body)
              /\ CopyLabels(last.copies[k]) \subseteq DOMAIN last.post
              /\ CopyLabels(last.copies[k]) \cap SwitchLabels = {}
              /\ j # k => CopyLabels(last.copies[j]) \cap CopyLabels(last.copies[k]) = {}
        /\ SwitchLabels \subseteq DOMAIN last.post
        /\ DOMAIN last.post = ((DOMAIN last.pre) \ (last.body \ {last.replace}))
                                 \cup SwitchLabels
                                 \cup UNION {CopyLabels(last.copies[k]) : k \in DOMAIN last.copies}
        /\ \A l \in (DOMAIN last.post) \ ((DOMAIN last.pre) \ last.body) :
              l # last.replace => l > Max(DOMAIN last.pre)

\* C26 happens: an unroll put in two copies of a body of more than one
\* block
C26_Witness ==
    /\ Unrolled
    /\ Len(last.copies) >= 2
    /\ Cardinality(last.body) >= 2

\* C27: after unroll_loop the branch of the loop header goes, when the loop
\* continues, to the entry block of the switch, the block that tests the
\* index against the indices of the first type, and when the loop is over
\* to where it went; no block of the original body is left in the block
\* map: its label is deleted, or is the one reused for the switch entry.
C27_HeaderStitched ==
    Unrolled =>
        /\ last.header \in DOMAIN last.post
        /\ Len(last.post[last.header]) = Len(last.pre[last.header])
        /\ \A i \in 1..(Len(last.pre[last.header]) - 1) :
              last.post[last.header][i] = last.pre[last.header][i]
        /\ Terminator(last.pre[last.header]).k = "branch"
        /\ Terminator(last.pre[last.header]).tb \in last.body
        /\ Terminator(last.post[last.header])
              = [Terminator(last.pre[last.header]) EXCEPT !.tb = last.replace]
        /\ Terminator(last.post[last.header]).fb \notin last.body
        /\ last.replace \in last.body \cap DOMAIN last.post
        /\ IsTest(last.post[last.replace])
        /\ TestSet(last.post[last.replace]) = Range(last.switch_data[1].ix)
        /\ \A l \in last.body \ {last.replace} : l \notin DOMAIN last.post

\* C27 happens: an unroll reused for the switch entry a label that was not
\* the one the header branched to
C27_Witness ==
    /\ Unrolled
    /\ Cardinality(last.body) >= 2
    /\ last.replace # Terminator(last.pre[last.header]).tb

\* the block of copy c made from block l of the loop body, as
\* inject_loop_body left it
RawCopyOf(c, l) == c.blks[l + (c.start - Min(last.body))]

\* the placeholders of the loop body handed to inject_loop_body: its
\* typed_getitems of the void type
Placeholders ==
    UNION {{OrigBody[l][i] : i \in {j \in 1..Len(OrigBody[l]) :
                                      OrigBody[l][j].op = "typed_getitem" /\ OrigBody[l][j].ty = VoidTy}}
             : l \in last.body}

\* C28: in the copy of the body for branch type T every placeholder
\* typed_getitem is resolved: for a Literal type T into the assignment of
\* a constant of T's value to the target it had, and then the copy reads
\* the container nowhere; for another type into a typed_getitem of the
\* same container and index with dtype T.  No copy holds a typed_getitem
\* of the void type, in the copy as injected and in the block map after
\* the patch, and the i-th copy has the type of the i-th key of the switch
\* data.
C28_PlaceholdersResolved ==
    Unrolled =>
        /\ Len(last.copies) = Len(last.switch_data)
        /\ \A k \in DOMAIN last.copies :
              LET c == last.copies[k]
              IN /\ c.ty = last.switch_data[k].ty
                 /\ c.ty # VoidTy
                 /\ \A l \in last.body :
                       /\ Len(CopyOf(c, l)) = Len(OrigBody[l])
                       /\ \A i \in 1..Len(RawCopyOf(c, l)) :
                             /\ RawCopyOf(c, l)[i].op = "typed_getitem" =>
                                   RawCopyOf(c, l)[i].ty # VoidTy
                             /\ (c.ty.lit /\ RawCopyOf(c, l)[i].op \in {"getitem", "typed_getitem"}) =>
                                   \A o \in Placeholders :
                                       RawCopyOf(c, l)[i].x # RenameVar(c.dict, o.x)
                             /\ i < Len(RawCopyOf(c, l)) =>
                                   last.post[PlacedAt(c, l)][i] = RawCopyOf(c, l)[i]
                       /\ \A i \in 1..Len(OrigBody[l]) :
                             OrigBody[l][i] \in Placeholders =>
                                 IF c.ty.lit
                                 THEN /\ CopyOf(c, l)[i].op = "var"
                                      /\ CopyOf(c, l)[i].tgt = RenameVar(c.dict, OrigBody[l][i].tgt)
                                      /\ CopyOf(c, l)[i].x \in c.consts
                                      /\ \E p \in 1..Len(RawCopyOf(c, l)) :
                                            RawCopyOf(c, l)[p] = Const(CopyOf(c, l)[i].x, c.ty.val)
                                 ELSE CopyOf(c, l)[i]
                                        = TypedGetitem(RenameVar(c.dict, OrigBody[l][i].tgt),
                                                       RenameVar(c.dict, OrigBody[l][i].x),
                                                       RenameVar(c.dict, OrigBody[l][i].y), c.ty)

\* C28 happens: an unroll made a copy for a Literal type and a copy for
\* another type of a body that reads the container
C28_Witness ==
    /\ Unrolled
    /\ Placeholders # {}
    /\ \E j, k \in DOMAIN last.copies : last.copies[j].ty.lit /\ ~last.copies[k].ty.lit

\* C29: the CFG and the loops are never used across a mutation of the
\* blocks: a loop that run_pass of IterLoopCanonicalization transforms is
\* a loop of the loop set computed from the blocks as they are when it is
\* assessed and transformed, which are the blocks the run began with only
\* for the first; and a call of apply_transform scans the loops of the
\* blocks as they are at the call.
C29_NoStaleAnalysis ==
    [][/\ (pc = "canon" /\ last' # last /\ last'.op = "canon") =>
             \A i \in DOMAIN last'.records :
                 /\ last'.records[i].loop \in Loops(blocks)
                 /\ last'.records[i].pre = blocks
       /\ (pc = "loop" /\ last' # last) =>
             /\ last'.pre = blocks
             /\ last'.loops = {lp.header : lp \in Loops(blocks)}]_vars

\* C30: when run_pass of MixedContainerUnroller has returned, whether it
\* unrolled a loop or none, state.typemap is the empty map and
\* state.return_type and state.calltypes are None; when it has raised,
\* the three have the values they had at entry.
C30_TypingReset ==
    /\ pc = "done" => (typemap = NoBlocks /\ typing = << "None", "None" >>)
    /\ pc = "raised" => (typemap = entry.typemap /\ typing = entry.typing)

\* C30 happens: run_pass returned after an unroll, entered with a typemap
\* that was not empty and with partial typing results
C30_Witness ==
    /\ pc = "done"
    /\ mutated
    /\ entry.typemap # NoBlocks
    /\ entry.typing = << "partial", "partial" >>

====
